---- MODULE Spec2Model ----
(***************************************************************************)
(* ing-switch: the annotation knowledge base, the compatibility analyzer,  *)
(* the Traefik and Gateway API migrators and the server handlers that      *)
(* drive them, as a state machine over one scanned fleet of Ingresses.     *)
(*                                                                         *)
(* Go strings are TLA+ strings; a Go map is a function, and a `range` over *)
(* a map visits its keys in an order the runtime picks, so every such loop *)
(* takes the visiting order as an input that the action chooses.  A        *)
(* generated YAML document is the record of the values its fixed template  *)
(* is filled with, in the order the template prints them.                  *)
(***************************************************************************)
EXTENDS Integers, Sequences, FiniteSets, TLC

VARIABLES
  scan,      \* the ScanResult's Ingresses the calls work on
  target,    \* the target argument of the latest call
  report,    \* the AnalysisReport the latest analysis built
  files,     \* the GeneratedFiles the latest call returned
  response,  \* what the latest call returned: none, report, files, validation, bad-request
  calls,     \* analyzeIngress invocations made by the latest call
  runs,      \* consecutive successful Migrate calls for target (2: two or more)
  cluster,   \* what else the cluster holds: controller pods, API groups, resources
  validation, \* the RichValidationResult of the latest validation
  guide,     \* the latest lookup in the guide registry and what it returned
  page       \* the Migrate page of the web UI: its React state

vars == <<scan, target, report, files, response, calls, runs, cluster, validation, guide, page>>

\* ------------------------------------------------------------------ bounds

\* Most Ingresses in one scanned fleet.
MaxRoutes == 2

\* Most nginx annotations on the Ingresses of one fleet, taken together.
MaxAnn == 3

\* Most nginx annotations on the Ingresses of one fleet handed to a
\* migrator, taken together.
MaxMigAnn == 2

\* ----------------------------------------------------------------- helpers

\* Every sequence that lists each element of S exactly once: the orders in
\* which a Go `range` may visit a map with key set S.
Perms(S) == { p \in [1..Cardinality(S) -> S] : \A x \in S : \E i \in DOMAIN p : p[i] = x }

\* strings.HasPrefix / strings.TrimPrefix
HasPrefix(s, p) == Len(s) >= Len(p) /\ SubSeq(s, 1, Len(p)) = p

TrimPrefix(s, p) == IF HasPrefix(s, p) THEN SubSeq(s, Len(p) + 1, Len(s)) ELSE s

\* m[k] of a Go map[string]string: the zero value "" when k is absent.
Get(m, k) == IF k \in DOMAIN m THEN m[k] ELSE ""

Has(m, k) == k \in DOMAIN m

\* The empty map.
EmptyMap == [k \in {} |-> ""]

\* --------------------------------------------------------- knowledge base

StatusSupported == "supported"

StatusPartial == "partial"

StatusUnsupported == "unsupported"

\* One row of a mapping table.
KB(status, resource, note) == [Status |-> status, TargetResource |-> resource, Note |-> note]

\* The em dash of the source's notes is written "-" here.
traefikMappings ==
   "ssl-redirect" :> KB(StatusSupported, "Middleware (RedirectScheme)", "Generates RedirectScheme middleware") @@
   "force-ssl-redirect" :> KB(StatusSupported, "Middleware (RedirectScheme)", "Permanent redirect to HTTPS") @@
   "enable-cors" :> KB(StatusSupported, "Middleware (Headers)", "Generates CORS Headers middleware") @@
   "cors-allow-origin" :> KB(StatusSupported, "Middleware (Headers)", "Part of Headers CORS middleware") @@
   "cors-allow-methods" :> KB(StatusSupported, "Middleware (Headers)", "Part of Headers CORS middleware") @@
   "cors-allow-headers" :> KB(StatusSupported, "Middleware (Headers)", "Part of Headers CORS middleware") @@
   "cors-expose-headers" :> KB(StatusSupported, "Middleware (Headers)", "Part of Headers CORS middleware") @@
   "cors-allow-credentials" :> KB(StatusSupported, "Middleware (Headers)", "Part of Headers CORS middleware") @@
   "cors-max-age" :> KB(StatusSupported, "Middleware (Headers)", "Part of Headers CORS middleware") @@
   "affinity" :> KB(StatusSupported, "Service sticky annotation", "Traefik sticky cookie on Service") @@
   "session-cookie-name" :> KB(StatusSupported, "Service sticky annotation", "Cookie name for session affinity") @@
   "session-cookie-path" :> KB(StatusPartial, "Service sticky annotation", "Limited path support") @@
   "session-cookie-samesite" :> KB(StatusSupported, "Service sticky annotation", "SameSite attribute") @@
   "session-cookie-secure" :> KB(StatusSupported, "Service sticky annotation", "Secure flag") @@
   "limit-rps" :> KB(StatusSupported, "Middleware (RateLimit)", "Generates RateLimit middleware") @@
   "limit-rpm" :> KB(StatusSupported, "Middleware (RateLimit)", "Converted to average rate") @@
   "limit-connections" :> KB(StatusSupported, "Middleware (InFlightReq)", "Max concurrent requests") @@
   "limit-burst-multiplier" :> KB(StatusSupported, "Middleware (RateLimit)", "Burst size multiplier") @@
   "limit-whitelist" :> KB(StatusSupported, "Middleware (RateLimit)", "Exempt IPs from rate limiting") @@
   "auth-url" :> KB(StatusSupported, "Middleware (ForwardAuth)", "Generates ForwardAuth middleware") @@
   "auth-method" :> KB(StatusPartial, "Middleware (ForwardAuth)", "Only GET/POST supported") @@
   "auth-response-headers" :> KB(StatusSupported, "Middleware (ForwardAuth)", "Headers passed after auth") @@
   "auth-request-redirect" :> KB(StatusPartial, "Middleware (ForwardAuth)", "Redirect URL for auth failure") @@
   "auth-type" :> KB(StatusPartial, "Middleware (BasicAuth)", "Basic auth only; digest not supported") @@
   "auth-secret" :> KB(StatusPartial, "Middleware (BasicAuth)", "Secret format differs from NGINX") @@
   "auth-realm" :> KB(StatusSupported, "Middleware (BasicAuth)", "Auth realm") @@
   "whitelist-source-range" :> KB(StatusSupported, "Middleware (IPAllowList)", "Generates IPAllowList middleware") @@
   "denylist-source-range" :> KB(StatusSupported, "Middleware (IPDenyList)", "Generates IPDenyList middleware") @@
   "custom-headers" :> KB(StatusPartial, "Middleware (Headers)", "ConfigMap ref not supported; inline headers needed") @@
   "rewrite-target" :> KB(StatusSupported, "Middleware (ReplacePath/AddPrefix)", "URL rewrite middleware") @@
   "use-regex" :> KB(StatusSupported, "Router (native)", "Traefik supports regex routing natively") @@
   "app-root" :> KB(StatusSupported, "Router + Middleware", "Redirect root path") @@
   "permanent-redirect" :> KB(StatusSupported, "Middleware (RedirectRegex)", "Permanent redirect") @@
   "temporal-redirect" :> KB(StatusSupported, "Middleware (RedirectRegex)", "Temporary redirect") @@
   "canary" :> KB(StatusSupported, "Weighted Services", "Weighted backend traffic splitting") @@
   "canary-weight" :> KB(StatusSupported, "Weighted Services", "Traffic weight percentage") @@
   "canary-by-header" :> KB(StatusPartial, "Router rules", "Header matching in router rules") @@
   "canary-by-header-value" :> KB(StatusPartial, "Router rules", "Header value matching") @@
   "canary-by-cookie" :> KB(StatusPartial, "Router rules", "Cookie-based routing via rules") @@
   "proxy-read-timeout" :> KB(StatusPartial, "ServersTransport CRD", "Requires ServersTransport resource") @@
   "proxy-send-timeout" :> KB(StatusPartial, "ServersTransport CRD", "Requires ServersTransport resource") @@
   "proxy-connect-timeout" :> KB(StatusPartial, "ServersTransport CRD", "Requires ServersTransport resource") @@
   "proxy-buffering" :> KB(StatusUnsupported, "", "No direct Traefik equivalent") @@
   "proxy-body-size" :> KB(StatusPartial, "Middleware (Buffering)", "Traefik Buffering middleware with maxRequestBodyBytes") @@
   "proxy-request-buffering" :> KB(StatusPartial, "Native (off by default)", "Off is default behavior; enabling request buffering requires Buffering middleware") @@
   "client-body-buffer-size" :> KB(StatusUnsupported, "", "No Traefik equivalent") @@
   "configuration-snippet" :> KB(StatusUnsupported, "", "NGINX-specific; intentionally not supported") @@
   "server-snippet" :> KB(StatusUnsupported, "", "NGINX-specific; intentionally not supported") @@
   "ssl-passthrough" :> KB(StatusPartial, "Traefik TCP router", "Requires TCP entrypoint config") @@
   "backend-protocol" :> KB(StatusPartial, "Service annotation", "HTTPS/GRPC backends need ServersTransport") @@
   "websocket-services" :> KB(StatusSupported, "Native", "Traefik supports WebSocket natively") @@
   "grpc-backend" :> KB(StatusPartial, "ServersTransport + h2c", "gRPC requires h2c configuration") @@
   "upstream-hash-by" :> KB(StatusUnsupported, "", "Hash-based LB not supported in Traefik Ingress") @@
   "load-balance" :> KB(StatusUnsupported, "", "Traefik uses round-robin; custom LB not via Ingress") @@
   "affinity-mode" :> KB(StatusPartial, "Service (sticky cookie)", "Traefik always uses persistent affinity; balanced re-balancing is not available") @@
   "canary-weight-total" :> KB(StatusSupported, "Weighted Services", "Traefik uses relative weights; total is implicit") @@
   "proxy-http-version" :> KB(StatusPartial, "ServersTransport CRD", "HTTP/2 via ServersTransport; HTTP/1.0 not supported") @@
   "session-cookie-expires" :> KB(StatusPartial, "Service (sticky cookie maxage)", "Convert seconds to service.sticky.cookie.maxage annotation on Service") @@
   "session-cookie-max-age" :> KB(StatusSupported, "Service (sticky cookie maxage)", "Maps to service.sticky.cookie.maxage annotation on Service") @@
   "session-cookie-conditional-samesite-none" :> KB(StatusUnsupported, "", "Traefik sets SameSite statically - no UA-conditional logic") @@
   "session-cookie-change-on-failure" :> KB(StatusUnsupported, "", "No Traefik equivalent (traefik/traefik#1299)") @@
   "service-upstream" :> KB(StatusSupported, "Service annotation (nativelb)", "Set traefik.ingress.kubernetes.io/service.nativelb: 'true' on Service") @@
   "from-to-www-redirect" :> KB(StatusPartial, "Middleware (RedirectRegex)", "Requires RedirectRegex middleware + separate Ingress entry for www") @@
   "upstream-vhost" :> KB(StatusPartial, "Middleware (Headers) + passhostheader", "Headers middleware sets Host header; disable passhostheader on Service") @@
   "secure-verify-ca-secret" :> KB(StatusPartial, "ServersTransport (rootCAs)", "ServersTransport CRD referencing the CA secret")

gatewayAPIMappings ==
   "ssl-redirect" :> KB(StatusSupported, "HTTPRoute (RequestRedirect filter)", "RequestRedirect filter with scheme=https") @@
   "force-ssl-redirect" :> KB(StatusSupported, "HTTPRoute (RequestRedirect filter)", "301 redirect to HTTPS") @@
   "rewrite-target" :> KB(StatusSupported, "HTTPRoute (URLRewrite filter)", "Path rewrite via URLRewrite filter") @@
   "custom-headers" :> KB(StatusSupported, "HTTPRoute (ResponseHeaderModifier)", "Response header manipulation filter") @@
   "canary" :> KB(StatusSupported, "HTTPRoute (weighted backendRefs)", "Traffic split via backendRefs weights") @@
   "canary-weight" :> KB(StatusSupported, "HTTPRoute (weighted backendRefs)", "Weight value in backendRefs") @@
   "enable-cors" :> KB(StatusPartial, "HTTPRoute (ResponseHeaderModifier)", "Manual CORS headers; no native CORS filter in v1") @@
   "cors-allow-origin" :> KB(StatusPartial, "HTTPRoute (ResponseHeaderModifier)", "Set Access-Control-Allow-Origin header") @@
   "cors-allow-methods" :> KB(StatusPartial, "HTTPRoute (ResponseHeaderModifier)", "Set Access-Control-Allow-Methods header") @@
   "cors-allow-headers" :> KB(StatusPartial, "HTTPRoute (ResponseHeaderModifier)", "Set Access-Control-Allow-Headers header") @@
   "cors-allow-credentials" :> KB(StatusPartial, "HTTPRoute (ResponseHeaderModifier)", "Set Access-Control-Allow-Credentials header") @@
   "auth-url" :> KB(StatusPartial, "SecurityPolicy (ExtensionRef)", "Envoy Gateway SecurityPolicy with ext-auth") @@
   "auth-response-headers" :> KB(StatusPartial, "SecurityPolicy (ExtensionRef)", "Part of SecurityPolicy ext-auth config") @@
   "limit-rps" :> KB(StatusPartial, "BackendTrafficPolicy (RateLimit)", "Envoy Gateway BackendTrafficPolicy") @@
   "limit-rpm" :> KB(StatusPartial, "BackendTrafficPolicy (RateLimit)", "Converted to rate limit") @@
   "limit-connections" :> KB(StatusPartial, "BackendTrafficPolicy (CircuitBreaker)", "Circuit breaker policy") @@
   "whitelist-source-range" :> KB(StatusPartial, "HTTPRoute (source IP match)", "HTTPRouteMatch with client IP - limited support") @@
   "denylist-source-range" :> KB(StatusPartial, "SecurityPolicy (IPFilter)", "Envoy Gateway SecurityPolicy IP filter") @@
   "affinity" :> KB(StatusPartial, "BackendLBPolicy (SessionPersistence)", "Gateway API v1.1 SessionPersistence") @@
   "session-cookie-name" :> KB(StatusPartial, "BackendLBPolicy", "Cookie name in SessionPersistence") @@
   "proxy-read-timeout" :> KB(StatusPartial, "HTTPRoute (timeouts)", "HTTPRoute spec.rules[].timeouts.backendRequest") @@
   "proxy-connect-timeout" :> KB(StatusPartial, "HTTPRoute (timeouts)", "HTTPRoute spec.rules[].timeouts.request") @@
   "canary-by-header" :> KB(StatusSupported, "HTTPRoute (header match)", "Match header in HTTPRouteMatch") @@
   "canary-by-header-value" :> KB(StatusSupported, "HTTPRoute (header match)", "Exact header value match") @@
   "use-regex" :> KB(StatusSupported, "HTTPRoute (PathMatch RegularExpression)", "Native regex path matching") @@
   "permanent-redirect" :> KB(StatusSupported, "HTTPRoute (RequestRedirect)", "301 redirect filter") @@
   "temporal-redirect" :> KB(StatusSupported, "HTTPRoute (RequestRedirect)", "302 redirect filter") @@
   "backend-protocol" :> KB(StatusPartial, "Gateway TLS config", "TLS backend via Gateway listener config") @@
   "websocket-services" :> KB(StatusSupported, "Native", "Gateway API supports WebSocket natively") @@
   "grpc-backend" :> KB(StatusSupported, "GRPCRoute", "Dedicated GRPCRoute resource") @@
   "proxy-body-size" :> KB(StatusPartial, "BackendTrafficPolicy (requestBuffer)", "Envoy Gateway BackendTrafficPolicy with requestBuffer.limit") @@
   "proxy-request-buffering" :> KB(StatusSupported, "Native", "Envoy Gateway streams requests by default (off is the default)") @@
   "configuration-snippet" :> KB(StatusUnsupported, "", "NGINX-specific; no equivalent") @@
   "server-snippet" :> KB(StatusUnsupported, "", "NGINX-specific; no equivalent") @@
   "auth-type" :> KB(StatusUnsupported, "", "No basic auth in core Gateway API") @@
   "auth-secret" :> KB(StatusUnsupported, "", "No basic auth in core Gateway API") @@
   "ssl-passthrough" :> KB(StatusPartial, "TLSRoute", "TLS passthrough via TLSRoute") @@
   "load-balance" :> KB(StatusUnsupported, "", "Not configurable via Gateway API") @@
   "upstream-hash-by" :> KB(StatusUnsupported, "", "Not in core Gateway API") @@
   "affinity-mode" :> KB(StatusPartial, "BackendLBPolicy (SessionPersistence)", "Cookie persistence in BackendLBPolicy; balanced re-balancing unavailable in spec") @@
   "canary-weight-total" :> KB(StatusSupported, "HTTPRoute (weighted backendRefs)", "Gateway API backendRefs weights are relative; total is implicit") @@
   "proxy-http-version" :> KB(StatusSupported, "Native", "Envoy Gateway handles HTTP/2 and HTTP/1.1 natively") @@
   "session-cookie-expires" :> KB(StatusPartial, "BackendLBPolicy (absoluteTimeout)", "BackendLBPolicy cookieConfig.lifetimeType: Permanent + absoluteTimeout") @@
   "session-cookie-max-age" :> KB(StatusPartial, "BackendLBPolicy (absoluteTimeout)", "BackendLBPolicy cookieConfig.absoluteTimeout field") @@
   "session-cookie-conditional-samesite-none" :> KB(StatusUnsupported, "", "No Gateway API or Envoy Gateway equivalent") @@
   "session-cookie-change-on-failure" :> KB(StatusUnsupported, "", "No Gateway API equivalent") @@
   "service-upstream" :> KB(StatusSupported, "Native", "Gateway API routes to pod IPs natively (no kube-proxy overhead)") @@
   "from-to-www-redirect" :> KB(StatusSupported, "HTTPRoute (RequestRedirect)", "HTTPRoute RequestRedirect filter with hostname replacement") @@
   "upstream-vhost" :> KB(StatusSupported, "HTTPRoute (RequestHeaderModifier)", "RequestHeaderModifier filter sets Host header") @@
   "secure-verify-ca-secret" :> KB(StatusPartial, "BackendTLSPolicy", "BackendTLSPolicy with caCertificateRefs for backend TLS verification") @@
   "session-cookie-samesite" :> KB(StatusUnsupported, "", "SameSite is not configurable in BackendLBPolicy; no Gateway API equivalent") @@
   "session-cookie-path" :> KB(StatusUnsupported, "", "Cookie path scoping is not in BackendLBPolicy spec") @@
   "session-cookie-secure" :> KB(StatusUnsupported, "", "Secure flag is not configurable in BackendLBPolicy spec") @@
   "proxy-send-timeout" :> KB(StatusUnsupported, "", "No Gateway API equivalent; only backendRequest timeout (from proxy-read-timeout) is supported") @@
   "proxy-buffering" :> KB(StatusUnsupported, "", "No Gateway API or Envoy Gateway equivalent") @@
   "cors-expose-headers" :> KB(StatusPartial, "HTTPRoute (ResponseHeaderModifier)", "Set Access-Control-Expose-Headers via ResponseHeaderModifier") @@
   "cors-max-age" :> KB(StatusPartial, "HTTPRoute (ResponseHeaderModifier)", "Set Access-Control-Max-Age via ResponseHeaderModifier") @@
   "limit-burst-multiplier" :> KB(StatusPartial, "BackendTrafficPolicy (RateLimit)", "Burst is configurable in BackendTrafficPolicy but uses tokens, not a multiplier") @@
   "limit-whitelist" :> KB(StatusUnsupported, "", "Per-IP rate limit exemption list is not in BackendTrafficPolicy spec") @@
   "canary-by-cookie" :> KB(StatusUnsupported, "", "Cookie-based canary routing requires ExtensionRef; not in core Gateway API") @@
   "app-root" :> KB(StatusPartial, "HTTPRoute (URLRewrite)", "URLRewrite on root path can redirect / to the app root; limited to exact path")

NoteUnknownTarget == "Unknown target"

NoteUnknownAnnotation == "Unknown annotation - manual review required"

\* The mapping returned when the key is in no table (or the target in no case).
UnknownMapping(key, value, note) ==
  [OriginalKey |-> key, OriginalValue |-> value, Status |-> StatusUnsupported,
   TargetResource |-> "", Note |-> note]

\* MapAnnotation with a key that is in no table passed as supported.
MapAnnotationLenient(key, value, tgt) ==
  IF tgt \notin {"traefik", "gateway-api"}
  THEN UnknownMapping(key, value, NoteUnknownTarget)
  ELSE LET mappings == IF tgt = "traefik" THEN traefikMappings ELSE gatewayAPIMappings
       IN  IF key \in DOMAIN mappings
           THEN [OriginalKey |-> key, OriginalValue |-> value,
                 Status |-> mappings[key].Status,
                 TargetResource |-> mappings[key].TargetResource,
                 Note |-> mappings[key].Note]
           ELSE [OriginalKey |-> key, OriginalValue |-> value, Status |-> StatusSupported,
                 TargetResource |-> "", Note |-> ""]

MapAnnotation(key, value, tgt) ==
  IF tgt \notin {"traefik", "gateway-api"}
  THEN UnknownMapping(key, value, NoteUnknownTarget)
  ELSE LET mappings == IF tgt = "traefik" THEN traefikMappings ELSE gatewayAPIMappings
       IN  IF key \in DOMAIN mappings
           THEN [OriginalKey |-> key, OriginalValue |-> value,
                 Status |-> mappings[key].Status,
                 TargetResource |-> mappings[key].TargetResource,
                 Note |-> mappings[key].Note]
           ELSE UnknownMapping(key, value, NoteUnknownAnnotation)

\* ---------------------------------------------------------------- scanner

nginxAnnotationPrefix == "nginx.ingress.kubernetes.io/"

\* Go's string order on the names and hosts the fleets use ("-" sorts before
\* ".", digits and letters), as the ranks of this list.
Lexical == <<"", "a", "a-b", "a.example.com", "b", "b-c", "b.example.com", "c", "default", "shop">>

Rank(s) == CHOOSE i \in DOMAIN Lexical : Lexical[i] = s

StrLess(a, b) == Rank(a) < Rank(b)

\* sort.Strings of a set of strings.
RECURSIVE SortStrings(_)
SortStrings(S) ==
  IF S = {} THEN <<>>
  ELSE LET m == CHOOSE x \in S : \A y \in S \ {x} : StrLess(x, y)
       IN  <<m>> \o SortStrings(S \ {m})

\* The loop over one rule's paths: a PathInfo per path.
RulePaths(rule) ==
  [i \in DOMAIN rule.Paths |->
     [Host |-> rule.Host, Path |-> rule.Paths[i].Path, PathType |-> rule.Paths[i].PathType,
      ServiceName |-> rule.Paths[i].ServiceName, ServicePort |-> rule.Paths[i].ServicePort]]

RECURSIVE AllPaths(_)
AllPaths(rules) ==
  IF rules = <<>> THEN <<>> ELSE RulePaths(Head(rules)) \o AllPaths(Tail(rules))

\* The nginx annotations of an annotation map, under their short keys.
NginxOf(annotations) ==
  LET ks == { k \in DOMAIN annotations : HasPrefix(k, nginxAnnotationPrefix) }
      short == { TrimPrefix(k, nginxAnnotationPrefix) : k \in ks }
  IN  [s \in short |-> annotations[nginxAnnotationPrefix \o s]]

\* classifyComplexity: the tier the scanner gives an Ingress from the short
\* keys of its nginx annotations.
classifyComplexity(nginx) ==
  LET unsupportedInTraefik == {"proxy-body-size", "client-body-buffer-size", "snippets",
                               "lua-resty-waf", "modsecurity-snippet"}
      complexAnnotations == {"auth-url", "auth-response-headers", "canary", "canary-weight",
                             "limit-rps", "limit-connections", "rewrite-target", "use-regex",
                             "affinity", "whitelist-source-range", "denylist-source-range",
                             "proxy-read-timeout", "proxy-connect-timeout"}
  IN  IF DOMAIN nginx = {} THEN "simple"
      ELSE IF \E k \in DOMAIN nginx : k \in unsupportedInTraefik THEN "unsupported"
      ELSE IF \E k \in DOMAIN nginx : k \in complexAnnotations THEN "complex"
      ELSE "simple"

parseIngress(ing) ==
  [Namespace |-> ing.Namespace,
   Name |-> ing.Name,
   IngressClass |-> ing.IngressClassName,
   Hosts |-> SortStrings({ ing.Rules[i].Host : i \in DOMAIN ing.Rules } \ {""}),
   Paths |-> AllPaths(ing.Rules),
   TLSEnabled |-> Len(ing.TLS) > 0,
   TLSSecrets |-> SelectSeq(ing.TLS, LAMBDA sec : sec # ""),
   Annotations |-> ing.Annotations,
   NginxAnnotations |-> NginxOf(ing.Annotations),
   Complexity |-> classifyComplexity(NginxOf(ing.Annotations))]

InfoLess(x, y) ==
  IF x.Namespace # y.Namespace THEN StrLess(x.Namespace, y.Namespace)
  ELSE StrLess(x.Name, y.Name)

RECURSIVE SortInfos(_)
SortInfos(S) ==
  IF S = {} THEN <<>>
  ELSE LET m == CHOOSE x \in S : \A y \in S \ {x} : InfoLess(x, y)
       IN  <<m>> \o SortInfos(S \ {m})

\* The Ingresses of a cluster (a set: the API server lists them in any
\* order), parsed and sorted by namespace, then name.
listIngresses(items) == SortInfos({ parseIngress(ing) : ing \in items })

\* --------------------------------------------------------------- analyzer

\* The loop of analyzeIngress over the nginx annotations, visited in the
\* order `ord`: the mappings appended so far and the two flags.
RECURSIVE analyzeLoop(_, _, _, _)
analyzeLoop(ann, ord, tgt, acc) ==
  IF ord = <<>> THEN acc
  ELSE LET mapping == MapAnnotation(Head(ord), ann[Head(ord)], tgt)
       IN  analyzeLoop(ann, Tail(ord), tgt,
             [Mappings |-> Append(acc.Mappings, mapping),
              hasUnsupported |-> IF mapping.Status = StatusUnsupported THEN TRUE ELSE acc.hasUnsupported,
              hasPartial |-> IF mapping.Status = StatusPartial THEN TRUE ELSE acc.hasPartial])

\* OverallStatusOf with the two cases of the switch exchanged.
OverallStatusOfPartialFirst(hasUnsupported, hasPartial) ==
  IF hasPartial THEN "workaround"
  ELSE IF hasUnsupported THEN "breaking"
  ELSE "ready"

\* The switch that closes analyzeIngress.
OverallStatusOf(hasUnsupported, hasPartial) ==
  IF hasUnsupported THEN "breaking"
  ELSE IF hasPartial THEN "workaround"
  ELSE "ready"

analyzeIngress(ing, tgt, ord) ==
  LET acc == analyzeLoop(ing.NginxAnnotations, ord, tgt,
                         [Mappings |-> <<>>, hasUnsupported |-> FALSE, hasPartial |-> FALSE])
  IN  [Namespace |-> ing.Namespace,
       Name |-> ing.Name,
       Mappings |-> acc.Mappings,
       OverallStatus |-> OverallStatusOf(acc.hasUnsupported, acc.hasPartial)]

ZeroSummary == [Total |-> 0, FullyCompatible |-> 0, NeedsWorkaround |-> 0, HasUnsupported |-> 0]

\* Count with the workaround case falling through uncounted.
CountWithoutWorkaround(sum, ir) ==
  [Total |-> sum.Total + 1,
   FullyCompatible |-> sum.FullyCompatible + (IF ir.OverallStatus = "ready" THEN 1 ELSE 0),
   NeedsWorkaround |-> sum.NeedsWorkaround,
   HasUnsupported |-> sum.HasUnsupported + (IF ir.OverallStatus = "breaking" THEN 1 ELSE 0)]

\* The counters after one more Ingress report.
Count(sum, ir) ==
  [Total |-> sum.Total + 1,
   FullyCompatible |-> sum.FullyCompatible + (IF ir.OverallStatus = "ready" THEN 1 ELSE 0),
   NeedsWorkaround |-> sum.NeedsWorkaround + (IF ir.OverallStatus = "workaround" THEN 1 ELSE 0),
   HasUnsupported |-> sum.HasUnsupported + (IF ir.OverallStatus = "breaking" THEN 1 ELSE 0)]

\* The loop of Analyze over the Ingresses from the i-th on; ords[i] is the
\* order in which the i-th Ingress's annotation map is visited.
RECURSIVE AnalyzeLoop(_, _, _, _, _)
AnalyzeLoop(ings, tgt, ords, i, rep) ==
  IF i > Len(ings) THEN rep
  ELSE LET ir == analyzeIngress(ings[i], tgt, ords[i])
       IN  AnalyzeLoop(ings, tgt, ords, i + 1,
             [Target |-> rep.Target,
              IngressReports |-> Append(rep.IngressReports, ir),
              Summary |-> Count(rep.Summary, ir)])

Analyze(ings, tgt, ords) ==
  AnalyzeLoop(ings, tgt, ords, 1, [Target |-> tgt, IngressReports |-> <<>>, Summary |-> ZeroSummary])

\* One visiting order for each of the first n key sets of `sets`.
RECURSIVE PermsUpTo(_, _)
PermsUpTo(sets, n) ==
  IF n = 0 THEN {<<>>}
  ELSE { Append(ords, o) : ords \in PermsUpTo(sets, n - 1), o \in Perms(sets[n]) }

\* The visiting orders of the annotation maps of a fleet, one per Ingress.
IterOrders(ings) ==
  PermsUpTo([i \in DOMAIN ings |-> DOMAIN ings[i].NginxAnnotations], Len(ings))

\* No validation result: before the first validation.
NoValidation == [Target |-> "", Phase |-> "", PhaseDesc |-> "", Checks |-> <<>>, Overall |-> "",
                 NextSteps |-> <<>>]

\* A cluster that holds nothing but its Ingresses.
BareCluster == [pods |-> {}, groups |-> {}, middlewares |-> 0, httproutes |-> 0]

\* No report: before the first analysis, and after a rejected call.
NoReport == [Target |-> "", IngressReports |-> <<>>, Summary |-> ZeroSummary]

\* ---------------------------------------------------------------- strings

\* strings.Contains(s, ch) for a one-character ch
Contains(s, ch) == \E i \in 1..Len(s) : SubSeq(s, i, i) = ch

\* strings.Split(s, sep) for a one-character sep
RECURSIVE Split(_, _)
Split(s, sep) ==
  IF Contains(s, sep)
  THEN LET i == CHOOSE x \in 1..Len(s) :
                  SubSeq(s, x, x) = sep /\ \A y \in 1..(x - 1) : SubSeq(s, y, y) # sep
       IN  <<SubSeq(s, 1, i - 1)>> \o Split(SubSeq(s, i + 1, Len(s)), sep)
  ELSE <<s>>

\* strings.TrimSpace (the values here hold no white space but blanks)
RECURSIVE TrimSpace(_)
TrimSpace(s) ==
  IF Len(s) > 0 /\ SubSeq(s, 1, 1) = " " THEN TrimSpace(SubSeq(s, 2, Len(s)))
  ELSE IF Len(s) > 0 /\ SubSeq(s, Len(s), Len(s)) = " " THEN TrimSpace(SubSeq(s, 1, Len(s) - 1))
  ELSE s

\* The trimmed, non-empty items of a comma-separated list.
TrimmedItems(list) == SelectSeq([i \in DOMAIN Split(list, ",") |-> TrimSpace(Split(list, ",")[i])], LAMBDA c : c # "")

\* getAnnotation: the value of key, or defaultVal when absent or empty.
getAnnotation(annotations, key, defaultVal) ==
  IF Has(annotations, key) /\ annotations[key] # "" THEN annotations[key] ELSE defaultVal

\* A GeneratedFile.
File(relPath, content, description, category) ==
  [RelPath |-> relPath, Content |-> content, Description |-> description, Category |-> category]

\* A file whose content is a fixed text, named here by its first line.
FixedFile(relPath, firstLine, description, category) ==
  File(relPath, [text |-> firstLine], description, category)

\* The hosts of a path list in order of first appearance (hostOrder) ...
RECURSIVE hostOrderOf(_, _)
hostOrderOf(paths, seen) ==
  IF paths = <<>> THEN <<>>
  ELSE IF Head(paths).Host \in seen THEN hostOrderOf(Tail(paths), seen)
  ELSE <<Head(paths).Host>> \o hostOrderOf(Tail(paths), seen \cup {Head(paths).Host})

\* ... and the paths of each host in path order (hostPaths).
hostPathsOf(paths) ==
  [h \in { paths[i].Host : i \in DOMAIN paths } |-> SelectSeq(paths, LAMBDA q : q.Host = h)]

\* The concatenation of a sequence of sequences.
RECURSIVE Flatten(_)
Flatten(ss) == IF ss = <<>> THEN <<>> ELSE Head(ss) \o Flatten(Tail(ss))

\* -------------------------------------------- Gateway API: the HTTPRoutes

defaultGatewayName == "ing-switch-gateway"

defaultGatewayNamespace == "default"

\* A detection that knows the characters of groups and alternatives only.
pathHasRegexCharsGroupsOnly(path) ==
  \E ch \in {"(", ")", "|"} : Contains(path, ch)

pathHasRegexChars(path) ==
  \E ch \in {"(", ")", "|", "[", "]", "{", "}"} : Contains(path, ch)

buildPathMatch(path, annotations) ==
  LET pathValue == IF path.Path = "" THEN "/" ELSE path.Path
  IN  IF Has(annotations, "use-regex") \/ pathHasRegexChars(pathValue)
      THEN [type |-> "RegularExpression", value |-> pathValue]
      ELSE [type |-> IF path.PathType = "Exact" THEN "Exact" ELSE "PathPrefix", value |-> pathValue]

buildHeaderMatches(annotations) ==
  LET header == Get(annotations, "canary-by-header")
      headerValue == Get(annotations, "canary-by-header-value")
  IN  IF header = "" THEN <<>>
      ELSE IF headerValue # "" THEN <<[name |-> header, type |-> "Exact", value |-> headerValue]>>
      ELSE <<[name |-> header, type |-> "Present", value |-> ""]>>

buildCORSFilter(annotations) ==
  [type |-> "ResponseHeaderModifier",
   add |-> <<[name |-> "Access-Control-Allow-Origin",
              value |-> getAnnotation(annotations, "cors-allow-origin", "*")],
             [name |-> "Access-Control-Allow-Methods",
              value |-> getAnnotation(annotations, "cors-allow-methods", "GET, PUT, POST, DELETE, PATCH, OPTIONS")],
             [name |-> "Access-Control-Allow-Headers",
              value |-> getAnnotation(annotations, "cors-allow-headers", "Content-Type, Authorization")],
             [name |-> "Access-Control-Allow-Credentials",
              value |-> getAnnotation(annotations, "cors-allow-credentials", "true")]>>,
   note |-> ""]

buildBackendFilters(annotations) ==
  (IF Has(annotations, "rewrite-target") /\ annotations["rewrite-target"] # ""
   THEN <<[type |-> "URLRewrite", pathType |-> "ReplaceFullPath",
           replaceFullPath |-> annotations["rewrite-target"],
           note |-> IF Has(annotations, "use-regex")
                    THEN "For regex captures like $1, manual conversion to ReplacePrefixMatch may be needed"
                    ELSE ""]>>
   ELSE <<>>)
  \o (IF Get(annotations, "enable-cors") = "true" THEN <<buildCORSFilter(annotations)>> ELSE <<>>)
  \o (IF Has(annotations, "custom-headers")
      THEN <<[type |-> "ResponseHeaderModifier",
              add |-> <<[name |-> "X-Custom-Header", value |-> "value"]>>,
              note |-> "Populate headers from your ConfigMap reference in nginx annotation"]>>
      ELSE <<>>)

\* Backend references that give every weighted backend a stable companion.
buildBackendRefsWithStable(path, isCanary, canaryWeight) ==
  LET port == IF path.ServicePort = 0 THEN 80 ELSE path.ServicePort
  IN  IF canaryWeight # ""
      THEN [refs |-> <<[name |-> path.ServiceName, port |-> port, weight |-> canaryWeight],
                       [name |-> "stable-service", port |-> port, weight |-> ""]>>,
            commented |-> <<>>]
      ELSE [refs |-> <<[name |-> path.ServiceName, port |-> port, weight |-> ""]>>,
            commented |-> <<>>]

\* The backendRefs of a rule: the active references, and the commented-out
\* lines that follow them.
buildBackendRefs(path, isCanary, canaryWeight) ==
  LET port == IF path.ServicePort = 0 THEN 80 ELSE path.ServicePort
  IN  IF isCanary /\ canaryWeight # ""
      THEN [refs |-> <<[name |-> path.ServiceName, port |-> port, weight |-> canaryWeight]>>,
            commented |-> <<[note |-> "Add your stable backend below with weight = (100 - " \o canaryWeight \o "):",
                             name |-> "stable-service", port |-> port, weight |-> ""]>>]
      ELSE [refs |-> <<[name |-> path.ServiceName, port |-> port, weight |-> ""]>>,
            commented |-> <<>>]

\* A timeouts block that also sets the request timeout, from
\* proxy-connect-timeout.
buildTimeoutsWithConnect(annotations) ==
  LET readTimeout == Get(annotations, "proxy-read-timeout")
      connectTimeout == Get(annotations, "proxy-connect-timeout")
  IN  (IF connectTimeout = "" THEN <<>> ELSE <<[field |-> "request", value |-> connectTimeout \o "s"]>>)
      \o (IF readTimeout = "" THEN <<>> ELSE <<[field |-> "backendRequest", value |-> readTimeout \o "s"]>>)

\* The timeouts block of a rule: its fields, none when there is no block.
buildTimeouts(annotations) ==
  LET readTimeout == Get(annotations, "proxy-read-timeout")
  IN  IF readTimeout = "" THEN <<>>
      ELSE <<[field |-> "backendRequest", value |-> readTimeout \o "s"]>>

\* The rule builders ranging over the hostPaths map itself.
HostVisitOrderOfMap(hostOrder, mapOrder) == mapOrder

\* The order in which the rule builders visit the hosts of hostPaths: the
\* slice hostOrder, not the order `mapOrder` a range over the map would take.
HostVisitOrder(hostOrder, mapOrder) == hostOrder

Match(p, annotations) ==
  [path |-> buildPathMatch(p, annotations), headers |-> buildHeaderMatches(annotations)]

buildRedirectOnlyRules(ing, statusCode, mapOrder) ==
  LET annotations == ing.NginxAnnotations
      hostPaths == hostPathsOf(ing.Paths)
      order == HostVisitOrder(hostOrderOf(ing.Paths, {}), mapOrder)
      paths == Flatten([i \in DOMAIN order |-> hostPaths[order[i]]])
  IN  [i \in DOMAIN paths |->
         [matches |-> <<Match(paths[i], annotations)>>,
          filters |-> <<[type |-> "RequestRedirect", scheme |-> "https", statusCode |-> statusCode]>>,
          backendRefs |-> <<>>,
          commented |-> <<>>,
          timeouts |-> <<>>]]

buildBackendOnlyRules(ing, annotations, mapOrder) ==
  LET hostPaths == hostPathsOf(ing.Paths)
      order == HostVisitOrder(hostOrderOf(ing.Paths, {}), mapOrder)
      paths == Flatten([i \in DOMAIN order |-> hostPaths[order[i]]])
      isCanary == Get(annotations, "canary") = "true"
      canaryWeight == Get(annotations, "canary-weight")
  IN  [i \in DOMAIN paths |->
         [matches |-> <<Match(paths[i], annotations)>>,
          filters |-> buildBackendFilters(annotations),
          backendRefs |-> buildBackendRefs(paths[i], isCanary, canaryWeight).refs,
          commented |-> buildBackendRefs(paths[i], isCanary, canaryWeight).commented,
          timeouts |-> buildTimeouts(annotations)]]

\* An HTTPRoute document; sectionName "" is a parentRef without the field.
HTTPRouteDoc(name, namespace, gatewayName, gatewayNamespace, sectionName, hosts, rules) ==
  [kind |-> "HTTPRoute", name |-> name, namespace |-> namespace,
   parentRefs |-> <<[name |-> gatewayName, namespace |-> gatewayNamespace, sectionName |-> sectionName]>>,
   hostnames |-> hosts,
   rules |-> rules]

generateSingleHTTPRoute(ing, gatewayName, gatewayNamespace, sectionName, mapOrder) ==
  HTTPRouteDoc(ing.Name, ing.Namespace, gatewayName, gatewayNamespace, sectionName, ing.Hosts,
               buildBackendOnlyRules(ing, ing.NginxAnnotations, mapOrder))

\* redirectStatusCode answering 302 whenever ssl-redirect is "true".
redirectStatusCodeTemporaryFirst(annotations) ==
  IF Get(annotations, "ssl-redirect") = "true" THEN 302 ELSE 301

\* The status code of the redirect rules.
redirectStatusCode(annotations) ==
  IF Get(annotations, "ssl-redirect") = "true" /\ Get(annotations, "force-ssl-redirect") # "true"
  THEN 302 ELSE 301

\* The two documents of the file: the redirect route, then the backend route.
generateSplitHTTPRoutes(ing, gatewayName, gatewayNamespace, hostnameToSection, mapOrder) ==
  LET httpsSectionName == IF Len(ing.Hosts) > 0 THEN Get(hostnameToSection, ing.Hosts[1]) ELSE ""
      redirectRoute ==
        HTTPRouteDoc(ing.Name \o "-redirect", ing.Namespace, gatewayName, gatewayNamespace, "http",
                     ing.Hosts,
                     buildRedirectOnlyRules(ing, redirectStatusCode(ing.NginxAnnotations), mapOrder))
  IN  <<redirectRoute,
        generateSingleHTTPRoute(ing, gatewayName, gatewayNamespace, httpsSectionName, mapOrder)>>

\* hasSSLRedirect that looks at force-ssl-redirect only.
hasSSLRedirectForceOnly(annotations) ==
  Get(annotations, "force-ssl-redirect") = "true"

hasSSLRedirect(annotations) ==
  Get(annotations, "force-ssl-redirect") = "true" \/ Get(annotations, "ssl-redirect") = "true"

\* The documents of one Ingress's HTTPRoute file.
generateHTTPRoute(ing, gatewayName, gatewayNamespace, hostnameToSection, mapOrder) ==
  IF hasSSLRedirect(ing.NginxAnnotations)
  THEN generateSplitHTTPRoutes(ing, gatewayName, gatewayNamespace, hostnameToSection, mapOrder)
  ELSE <<generateSingleHTTPRoute(ing, gatewayName, gatewayNamespace, "", mapOrder)>>

\* ------------------------------- Gateway API: the Gateway and the policies

\* m with m[k] = v
Put(m, k, v) == [x \in DOMAIN m \cup {k} |-> IF x = k THEN v ELSE m[x]]

\* The loops of buildHostnameToSection, at the j-th TLS secret of the i-th
\* Ingress, with the next listener index idx and the map m built so far.
RECURSIVE sectionLoop(_, _, _, _, _)
sectionLoop(ings, i, j, idx, m) ==
  IF i > Len(ings) THEN m
  ELSE IF ~(ings[i].TLSEnabled /\ Len(ings[i].TLSSecrets) > 0) \/ j > Len(ings[i].TLSSecrets)
       THEN sectionLoop(ings, i + 1, 1, idx, m)
       ELSE sectionLoop(ings, i, j + 1, idx + 1,
                        IF Len(ings[i].Hosts) > 0
                        THEN Put(m, ings[i].Hosts[1], "https-" \o ToString(idx))
                        ELSE m)

buildHostnameToSection(ings) == sectionLoop(ings, 1, 1, 0, EmptyMap)

\* The tlsEntries of generateGateway: one per TLS secret of each Ingress.
tlsEntriesOf(ings) ==
  Flatten([i \in DOMAIN ings |->
     IF ings[i].TLSEnabled /\ Len(ings[i].TLSSecrets) > 0
     THEN [j \in DOMAIN ings[i].TLSSecrets |->
             [hosts |-> ings[i].Hosts, secretName |-> ings[i].TLSSecrets[j],
              namespace |-> ings[i].Namespace]]
     ELSE <<>>])

\* The hostname line of a listener: the first host, "" for no line.
buildHostnameList(hosts) == IF Len(hosts) = 0 THEN "" ELSE hosts[1]

\* The Gateway document: the HTTP listener, then one HTTPS listener per TLS
\* entry, or the placeholder listener when there is none.
generateGateway(ings) ==
  LET tlsEntries == tlsEntriesOf(ings)
      tlsListeners ==
        [i \in DOMAIN tlsEntries |->
           [name |-> "https-" \o ToString(i - 1), protocol |-> "HTTPS", port |-> 443,
            hostname |-> buildHostnameList(tlsEntries[i].hosts),
            certificateRefs |-> <<[name |-> tlsEntries[i].secretName,
                                   namespace |-> tlsEntries[i].namespace]>>]]
      placeholder ==
        <<[name |-> "https", protocol |-> "HTTPS", port |-> 443, hostname |-> "",
           certificateRefs |-> <<>>]>>
  IN  [kind |-> "Gateway", name |-> defaultGatewayName, namespace |-> defaultGatewayNamespace,
       listeners |-> <<[name |-> "http", protocol |-> "HTTP", port |-> 80, hostname |-> "",
                        certificateRefs |-> <<>>]>>
                     \o (IF tlsListeners = <<>> THEN placeholder ELSE tlsListeners)]

\* The targetRef of a policy: the HTTPRoute named like the Ingress.
TargetRef(ing) == [group |-> "gateway.networking.k8s.io", kind |-> "HTTPRoute", name |-> ing.Name]

generateRateLimitPolicy(ing) ==
  LET rps == IF Get(ing.NginxAnnotations, "limit-rps") = "" THEN "100"
             ELSE ing.NginxAnnotations["limit-rps"]
      name == ing.Namespace \o "-" \o ing.Name \o "-ratelimit"
  IN  [name |-> name,
       yaml |-> [kind |-> "BackendTrafficPolicy", name |-> name, namespace |-> ing.Namespace,
                 targetRef |-> TargetRef(ing),
                 spec |-> [requests |-> rps, unit |-> "Second"]]]

generateSecurityPolicy(ing) ==
  LET name == ing.Namespace \o "-" \o ing.Name \o "-extauth"
      rh == Get(ing.NginxAnnotations, "auth-response-headers")
  IN  [name |-> name,
       yaml |-> [kind |-> "SecurityPolicy", name |-> name, namespace |-> ing.Namespace,
                 targetRef |-> TargetRef(ing),
                 spec |-> [backendRef |-> "auth-service", port |-> 9001,
                           originalAuthURL |-> Get(ing.NginxAnnotations, "auth-url"),
                           headersToBackend |->
                             IF rh # ""
                             THEN [i \in DOMAIN Split(rh, ",") |-> TrimSpace(Split(rh, ",")[i])]
                             ELSE <<>>]]]

generateIPFilterPolicy(ing, cidr, action) ==
  LET name == ing.Namespace \o "-" \o ing.Name \o "-ipfilter"
  IN  [name |-> name,
       yaml |-> [kind |-> "SecurityPolicy", name |-> name, namespace |-> ing.Namespace,
                 targetRef |-> TargetRef(ing),
                 spec |-> [defaultAction |-> IF action = "Allow" THEN "Deny" ELSE "Allow",
                           action |-> action,
                           clientCIDRs |-> TrimmedItems(cidr)]]]

\* policiesOf deriving an extension policy from a configuration-snippet.
policiesOfWithSnippet(ing) ==
  LET annotations == ing.NginxAnnotations
  IN  (IF Has(annotations, "limit-rps") THEN <<generateRateLimitPolicy(ing)>> ELSE <<>>)
      \o (IF Get(annotations, "auth-url") # "" \/ Has(annotations, "configuration-snippet")
          THEN <<generateSecurityPolicy(ing)>> ELSE <<>>)
      \o (IF Get(annotations, "denylist-source-range") # ""
          THEN <<generateIPFilterPolicy(ing, annotations["denylist-source-range"], "Deny")>>
          ELSE <<>>)
      \o (IF Get(annotations, "whitelist-source-range") # ""
          THEN <<generateIPFilterPolicy(ing, annotations["whitelist-source-range"], "Allow")>>
          ELSE <<>>)

\* The policies of one Ingress, in the order generatePolicies appends them.
policiesOf(ing) ==
  LET annotations == ing.NginxAnnotations
  IN  (IF Has(annotations, "limit-rps") THEN <<generateRateLimitPolicy(ing)>> ELSE <<>>)
      \o (IF Get(annotations, "auth-url") # "" THEN <<generateSecurityPolicy(ing)>> ELSE <<>>)
      \o (IF Get(annotations, "denylist-source-range") # ""
          THEN <<generateIPFilterPolicy(ing, annotations["denylist-source-range"], "Deny")>>
          ELSE <<>>)
      \o (IF Get(annotations, "whitelist-source-range") # ""
          THEN <<generateIPFilterPolicy(ing, annotations["whitelist-source-range"], "Allow")>>
          ELSE <<>>)

generatePolicies(ings) == Flatten([i \in DOMAIN ings |-> policiesOf(ings[i])])

\* The test lines of a verify script: one per host of each Ingress.
testLinesOf(ings) ==
  Flatten([i \in DOMAIN ings |->
     [j \in DOMAIN ings[i].Hosts |->
        [Namespace |-> ings[i].Namespace, Name |-> ings[i].Name, host |-> ings[i].Hosts[j]]]])

generateGatewayVerifyScript(ings) ==
  File("06-verify.sh", [text |-> "# Verify Gateway API (Envoy Gateway) is handling your routes",
                        tests |-> testLinesOf(ings)],
       "Verification script for Gateway API routes", "verify")

generateCRDInstall ==
  FixedFile("01-install-gateway-api-crds/install.sh",
            "# Install Kubernetes Gateway API CRDs (Standard channel)",
            "Install Gateway API CRDs", "install")

generateEnvoyGatewayInstall ==
  FixedFile("02-install-envoy-gateway/helm-install.sh", "# Install Envoy Gateway",
            "Helm install script for Envoy Gateway", "install")

generateEnvoyGatewayValues ==
  FixedFile("02-install-envoy-gateway/values.yaml", "# Envoy Gateway Helm values",
            "Envoy Gateway Helm values", "install")

generateGatewayClass ==
  [kind |-> "GatewayClass", name |-> "eg",
   controllerName |-> "gateway.envoyproxy.io/gatewayclass-controller"]

\* A cleanup script that is written next to the numbered directories.
generateGatewayCleanupUnnumbered ==
  FixedFile("cleanup/remove-nginx.sh",
            "# Remove Ingress NGINX after Gateway API migration is complete",
            "Remove NGINX after Gateway API migration", "cleanup")

generateGatewayCleanup ==
  FixedFile("07-cleanup/remove-nginx.sh",
            "# Remove Ingress NGINX after Gateway API migration is complete",
            "Remove NGINX after Gateway API migration", "cleanup")

\* GatewayMigrateFiles emitting an HTTPRoute file only for the Ingresses that
\* carry an nginx annotation.
GatewayMigrateFilesAnnotatedOnly(ings, hostOrds) ==
  LET hostnameToSection == buildHostnameToSection(ings)
      policies == generatePolicies(ings)
      annotated == SelectSeq([i \in DOMAIN ings |-> i],
                             LAMBDA i : DOMAIN ings[i].NginxAnnotations # {})
  IN  <<generateCRDInstall,
        generateEnvoyGatewayInstall,
        generateEnvoyGatewayValues,
        File("03-gateway/gatewayclass.yaml", generateGatewayClass,
             "GatewayClass using Envoy Gateway controller", "gateway"),
        File("03-gateway/gateway.yaml", generateGateway(ings),
             "Gateway with HTTP and HTTPS listeners", "gateway")>>
      \o [k \in DOMAIN annotated |->
            LET i == annotated[k]
            IN  File("04-httproutes/" \o ings[i].Namespace \o "-" \o ings[i].Name \o ".yaml",
                     generateHTTPRoute(ings[i], defaultGatewayName, defaultGatewayNamespace,
                                       hostnameToSection, hostOrds[i]),
                     "HTTPRoute for " \o ings[i].Namespace \o "/" \o ings[i].Name, "httproute")]
      \o [i \in DOMAIN policies |->
            File("05-policies/" \o policies[i].name \o ".yaml", policies[i].yaml,
                 "Envoy Gateway policy: " \o policies[i].name, "policy")]
      \o <<generateGatewayVerifyScript(ings), generateGatewayCleanup>>

\* Migrator.Migrate of package gatewayapi; hostOrds[i] is the order a range
\* over the i-th Ingress's hostPaths map would take.
GatewayMigrateFiles(ings, hostOrds) ==
  LET hostnameToSection == buildHostnameToSection(ings)
      policies == generatePolicies(ings)
  IN  <<generateCRDInstall,
        generateEnvoyGatewayInstall,
        generateEnvoyGatewayValues,
        File("03-gateway/gatewayclass.yaml", generateGatewayClass,
             "GatewayClass using Envoy Gateway controller", "gateway"),
        File("03-gateway/gateway.yaml", generateGateway(ings),
             "Gateway with HTTP and HTTPS listeners", "gateway")>>
      \o [i \in DOMAIN ings |->
            File("04-httproutes/" \o ings[i].Namespace \o "-" \o ings[i].Name \o ".yaml",
                 generateHTTPRoute(ings[i], defaultGatewayName, defaultGatewayNamespace,
                                   hostnameToSection, hostOrds[i]),
                 "HTTPRoute for " \o ings[i].Namespace \o "/" \o ings[i].Name, "httproute")]
      \o [i \in DOMAIN policies |->
            File("05-policies/" \o policies[i].name \o ".yaml", policies[i].yaml,
                 "Envoy Gateway policy: " \o policies[i].name, "policy")]
      \o <<generateGatewayVerifyScript(ings), generateGatewayCleanup>>

\* The visiting orders of the hostPaths maps of a fleet, one per Ingress.
HostOrders(ings) ==
  PermsUpTo([i \in DOMAIN ings |-> { ings[i].Paths[j].Host : j \in DOMAIN ings[i].Paths }], Len(ings))

\* ------------------------------------------------ Traefik: the middlewares

\* A MiddlewareSpec; its YAML is a Middleware document with the given spec.
Middleware(name, ns, spec) ==
  [Name |-> name, Namespace |-> ns,
   YAML |-> [kind |-> "Middleware", name |-> name, namespace |-> ns, spec |-> spec]]

generateSSLRedirect(ingName, ns, permanent) ==
  Middleware(IF permanent THEN ingName \o "-force-ssl-redirect" ELSE ingName \o "-ssl-redirect", ns,
             [redirectScheme |-> [scheme |-> "https",
                                  permanent |-> IF permanent THEN "true" ELSE "false"]])

generateCORSMiddleware(ingName, ns, annotations) ==
  Middleware(ingName \o "-cors", ns,
    [headers |->
       [accessControlAllowOriginList |-> getAnnotation(annotations, "cors-allow-origin", "*"),
        accessControlAllowMethods |->
          getAnnotation(annotations, "cors-allow-methods", "GET, PUT, POST, DELETE, PATCH, OPTIONS"),
        accessControlAllowHeaders |->
          getAnnotation(annotations, "cors-allow-headers",
            "DNT,Keep-Alive,User-Agent,X-Requested-With,If-Modified-Since,Cache-Control,Content-Type,Range,Authorization"),
        accessControlAllowCredentials |-> getAnnotation(annotations, "cors-allow-credentials", "true"),
        accessControlMaxAge |-> getAnnotation(annotations, "cors-max-age", "1728000"),
        exposedHeaders |-> getAnnotation(annotations, "cors-expose-headers", "")]])

generateForwardAuth(ingName, ns, annotations) ==
  LET rh == Get(annotations, "auth-response-headers")
  IN  Middleware(ingName \o "-auth", ns,
        [forwardAuth |->
           [address |-> Get(annotations, "auth-url"), trustForwardHeader |-> "true",
            authResponseHeaders |->
              IF rh # "" THEN [i \in DOMAIN Split(rh, ",") |-> TrimSpace(Split(rh, ",")[i])]
              ELSE <<>>]])

generateBasicAuth(ingName, ns, annotations) ==
  Middleware(ingName \o "-basicauth", ns,
    [basicAuth |-> [secret |-> getAnnotation(annotations, "auth-secret", ingName \o "-basic-auth"),
                    realm |-> getAnnotation(annotations, "auth-realm", "traefik")]])

generateRateLimit(ingName, ns, annotations) ==
  LET average == IF Get(annotations, "limit-rps") # "" THEN annotations["limit-rps"]
                 ELSE IF Get(annotations, "limit-rpm") # ""
                      THEN annotations["limit-rpm"] \o " # converted from "
                             \o annotations["limit-rpm"] \o " RPM"
                      ELSE "100"
      burst == IF Get(annotations, "limit-burst-multiplier") # ""
               THEN annotations["limit-burst-multiplier"] \o " # burst-multiplier applied"
               ELSE "200"
  IN  Middleware(ingName \o "-ratelimit", ns,
        [rateLimit |-> [average |-> average, burst |-> burst, period |-> "1s"]])

generateInFlightReq(ingName, ns, annotations) ==
  Middleware(ingName \o "-inflightreq", ns,
    [inFlightReq |-> [amount |-> getAnnotation(annotations, "limit-connections", "10")]])

generateIPAllowList(ingName, ns, cidr) ==
  Middleware(ingName \o "-ipallowlist", ns, [ipAllowList |-> [sourceRange |-> TrimmedItems(cidr)]])

generateIPDenyList(ingName, ns, cidr) ==
  Middleware(ingName \o "-ipdenylist", ns, [ipDenyList |-> [sourceRange |-> TrimmedItems(cidr)]])

\* generateRewriteMiddleware choosing the regex shape from the characters of
\* the rewrite target.
generateRewriteMiddlewareByTarget(ingName, ns, rewriteTarget, annotations) ==
  IF Contains(rewriteTarget, "$")
  THEN Middleware(ingName \o "-rewrite", ns,
         [replacePathRegex |-> [regex |-> "^/[^/]*(.*)", replacement |-> rewriteTarget]])
  ELSE Middleware(ingName \o "-rewrite", ns, [replacePath |-> [path |-> rewriteTarget]])

generateRewriteMiddleware(ingName, ns, rewriteTarget, annotations) ==
  IF Has(annotations, "use-regex")
  THEN Middleware(ingName \o "-rewrite", ns,
         [replacePathRegex |-> [regex |-> "^/[^/]*(.*)", replacement |-> rewriteTarget]])
  ELSE Middleware(ingName \o "-rewrite", ns, [replacePath |-> [path |-> rewriteTarget]])

generateHeadersMiddleware(ingName, ns, annotations) ==
  Middleware(ingName \o "-headers", ns,
    [headers |-> [customResponseHeaders |-> [name |-> "X-Custom-Header", value |-> "value"],
                  note |-> getAnnotation(annotations, "custom-headers", "")]])

\* The middlewares of one Ingress, in the order generateMiddlewares appends
\* them.
generateMiddlewares(ing) ==
  LET annotations == ing.NginxAnnotations
      name == ing.Name
      ns == ing.Namespace
  IN  (IF Get(annotations, "ssl-redirect") = "true"
       THEN <<generateSSLRedirect(name, ns, FALSE)>> ELSE <<>>)
      \o (IF Get(annotations, "force-ssl-redirect") = "true"
          THEN <<generateSSLRedirect(name, ns, TRUE)>> ELSE <<>>)
      \o (IF Get(annotations, "enable-cors") = "true"
          THEN <<generateCORSMiddleware(name, ns, annotations)>> ELSE <<>>)
      \o (IF Get(annotations, "auth-url") # ""
          THEN <<generateForwardAuth(name, ns, annotations)>> ELSE <<>>)
      \o (IF Get(annotations, "auth-type") = "basic"
          THEN <<generateBasicAuth(name, ns, annotations)>> ELSE <<>>)
      \o (IF Has(annotations, "limit-rps") \/ Has(annotations, "limit-rpm")
          THEN <<generateRateLimit(name, ns, annotations)>> ELSE <<>>)
      \o (IF Has(annotations, "limit-connections")
          THEN <<generateInFlightReq(name, ns, annotations)>> ELSE <<>>)
      \o (IF Get(annotations, "whitelist-source-range") # ""
          THEN <<generateIPAllowList(name, ns, annotations["whitelist-source-range"])>> ELSE <<>>)
      \o (IF Get(annotations, "denylist-source-range") # ""
          THEN <<generateIPDenyList(name, ns, annotations["denylist-source-range"])>> ELSE <<>>)
      \o (IF Get(annotations, "rewrite-target") # ""
          THEN <<generateRewriteMiddleware(name, ns, annotations["rewrite-target"], annotations)>>
          ELSE <<>>)
      \o (IF Has(annotations, "custom-headers")
          THEN <<generateHeadersMiddleware(name, ns, annotations)>> ELSE <<>>)

\* ------------------------------------------- Traefik: the updated Ingresses

\* strings.Join
RECURSIVE Join(_, _)
Join(ss, sep) ==
  IF ss = <<>> THEN ""
  ELSE IF Len(ss) = 1 THEN ss[1]
  ELSE ss[1] \o sep \o Join(Tail(ss), sep)

\* The nginx annotations generateUpdatedIngress deletes, by short key.
toRemove ==
  { nginxAnnotationPrefix \o k :
      k \in {"ssl-redirect", "force-ssl-redirect", "enable-cors", "cors-allow-origin",
             "cors-allow-methods", "cors-allow-headers", "cors-expose-headers",
             "cors-allow-credentials", "cors-max-age", "auth-url", "auth-response-headers",
             "auth-method", "limit-rps", "limit-rpm", "limit-connections",
             "whitelist-source-range", "denylist-source-range", "rewrite-target", "use-regex"} }

routerMiddlewares == "traefik.ingress.kubernetes.io/router.middlewares"

\* copyAnnotations handing back the map it was given.
copyAnnotationsAliased(src) == [cell |-> "src", entries |-> src]

\* copyAnnotations: a map of its own (cell "dst") with the entries of src; a
\* map is a reference, and the cell says which map later writes go to.
copyAnnotations(src) == [cell |-> "dst", entries |-> [k \in DOMAIN src |-> src[k]]]

\* The annotations map of the updated Ingress: the copy, without the keys of
\* toRemove, with the middleware annotation when there are middlewares.
updatedAnnotations(ing, middlewareNames) ==
  LET annotations == copyAnnotations(ing.Annotations).entries
      kept == [k \in DOMAIN annotations \ toRemove |-> annotations[k]]
  IN  IF Len(middlewareNames) > 0
      THEN Put(kept, routerMiddlewares, Join(middlewareNames, ","))
      ELSE kept

\* What ing.Annotations holds once generateUpdatedIngress has returned: the
\* deletes and the insert go to the map copyAnnotations handed back.
annotationsAfterUpdate(ing, middlewareNames) ==
  IF copyAnnotations(ing.Annotations).cell = "src"
  THEN updatedAnnotations(ing, middlewareNames)
  ELSE ing.Annotations

\* The rules of the updated Ingress, one per host of hostPaths, in the
\* order mapOrder in which the range over hostPaths visits the hosts.
buildRulesSection(ing, mapOrder) ==
  LET hostPaths == hostPathsOf(ing.Paths)
  IN  [i \in DOMAIN mapOrder |->
         [host |-> mapOrder[i],
          paths |-> [j \in DOMAIN hostPaths[mapOrder[i]] |->
                       LET q == hostPaths[mapOrder[i]][j]
                       IN  [path |-> IF q.Path = "" THEN "/" ELSE q.Path,
                            pathType |-> IF q.PathType = "" THEN "Prefix" ELSE q.PathType,
                            name |-> q.ServiceName, number |-> q.ServicePort]]]]

hostListForTLS(ing) == ing.Hosts

\* The updated Ingress document; annOrder is the order in which the range
\* over the annotations map visits its keys.
generateUpdatedIngress(ing, middlewareNames, annOrder, mapOrder) ==
  LET annotations == updatedAnnotations(ing, middlewareNames)
  IN  [kind |-> "Ingress", name |-> ing.Name, namespace |-> ing.Namespace,
       annotations |-> [i \in DOMAIN annOrder |-> [key |-> annOrder[i], value |-> annotations[annOrder[i]]]],
       ingressClassName |-> IF ing.IngressClass = "" THEN "nginx" ELSE ing.IngressClass,
       rules |-> buildRulesSection(ing, mapOrder),
       tls |-> [i \in DOMAIN ing.TLSSecrets |->
                  [hosts |-> hostListForTLS(ing), secretName |-> ing.TLSSecrets[i]]]]

generateVerifyScript(ings) ==
  File("04-verify.sh", [text |-> "# Verify Traefik is handling your Ingress resources correctly",
                        tests |-> testLinesOf(ings)],
       "Verification script to test Traefik before DNS cutover", "verify")

generateHelmInstall ==
  FixedFile("01-install-traefik/helm-install.sh",
            "# Install Traefik alongside existing NGINX Ingress Controller",
            "Helm install script for Traefik", "install")

generateHelmValues ==
  FixedFile("01-install-traefik/values.yaml", "# Traefik Helm values for NGINX Ingress migration",
            "Traefik Helm values file", "install")

generateDNSGuide ==
  FixedFile("05-dns-migration.md", "# DNS Migration Guide",
            "Step-by-step DNS migration guide", "guide")

generatePreserveIngressClass ==
  FixedFile("06-cleanup/01-preserve-ingressclass.yaml",
            "# Apply this BEFORE uninstalling NGINX to preserve the IngressClass.",
            "Preserve nginx IngressClass before removing NGINX", "cleanup")

generateCleanupScript ==
  FixedFile("06-cleanup/02-remove-nginx.sh",
            "# Remove Ingress NGINX Controller after migration is complete.",
            "Remove NGINX after migration is verified complete", "cleanup")

\* The names of the middlewares of an Ingress, as the annotation lists them.
mwNamesOf(ing) ==
  [i \in DOMAIN generateMiddlewares(ing) |->
     ing.Namespace \o "-" \o generateMiddlewares(ing)[i].Name \o "@kubernetescrd"]

\* The map middlewareNames after the first loop of Migrate has handled the
\* first n Ingresses: a key per Ingress with middlewares, the later Ingress
\* overwriting the earlier under the same key.
RECURSIVE middlewareNamesUpTo(_, _)
middlewareNamesUpTo(ings, n) ==
  IF n = 0 THEN EmptyMap
  ELSE IF Len(generateMiddlewares(ings[n])) > 0
       THEN Put(middlewareNamesUpTo(ings, n - 1),
                ings[n].Namespace \o "-" \o ings[n].Name, mwNamesOf(ings[n]))
       ELSE middlewareNamesUpTo(ings, n - 1)

\* middlewareNames[key], nil (no names) for an absent key.
NamesAt(m, key) == IF key \in DOMAIN m THEN m[key] ELSE <<>>

\* Migrator.Migrate of package traefik; annOrds[i] and hostOrds[i] are the
\* orders the ranges over the i-th Ingress's annotations and hostPaths maps
\* take.
TraefikMigrateFiles(ings, annOrds, hostOrds) ==
  LET middlewareNames == middlewareNamesUpTo(ings, Len(ings))
      withMiddlewares == SelectSeq(ings, LAMBDA ing : Len(generateMiddlewares(ing)) > 0)
  IN  <<generateHelmInstall, generateHelmValues>>
      \o [i \in DOMAIN withMiddlewares |->
            LET ing == withMiddlewares[i]
            IN  File("02-middlewares/" \o ing.Namespace \o "-" \o ing.Name \o "-middlewares.yaml",
                     [j \in DOMAIN generateMiddlewares(ing) |-> generateMiddlewares(ing)[j].YAML],
                     "Traefik Middlewares for " \o ing.Namespace \o "/" \o ing.Name, "middleware")]
      \o [i \in DOMAIN ings |->
            File("03-ingresses/" \o ings[i].Namespace \o "-" \o ings[i].Name \o ".yaml",
                 generateUpdatedIngress(ings[i],
                                        NamesAt(middlewareNames, ings[i].Namespace \o "-" \o ings[i].Name),
                                        annOrds[i], hostOrds[i]),
                 "Updated Ingress manifest for " \o ings[i].Namespace \o "/" \o ings[i].Name
                   \o " with Traefik annotations", "ingress")]
      \o <<generateVerifyScript(ings), generateDNSGuide, generatePreserveIngressClass,
           generateCleanupScript>>

\* The visiting orders of the updated Ingresses' annotation maps, one per
\* Ingress.
AnnotationOrders(ings) ==
  LET middlewareNames == middlewareNamesUpTo(ings, Len(ings))
  IN  PermsUpTo([i \in DOMAIN ings |->
                   DOMAIN updatedAnnotations(ings[i],
                            NamesAt(middlewareNames, ings[i].Namespace \o "-" \o ings[i].Name))],
                Len(ings))

\* The Ingresses of the scan once the Traefik Migrate has returned.
TraefikMigrateScan(ings) ==
  LET middlewareNames == middlewareNamesUpTo(ings, Len(ings))
  IN  [i \in DOMAIN ings |->
         [ings[i] EXCEPT !.Annotations =
            annotationsAfterUpdate(ings[i],
              NamesAt(middlewareNames, ings[i].Namespace \o "-" \o ings[i].Name))]]

\* ----------------------------------------------------- the guide registry

\* An AnnotationGuide of the registry; of its texts the model keeps whether
\* What is empty, which is what tells a guide from the zero value.
AGuide == [What |-> "set"]

\* The zero AnnotationGuide.
ZeroGuide == [What |-> ""]

traefikGuides ==
  [k \in {"affinity-mode", "proxy-http-version", "session-cookie-path", "auth-method",
           "auth-request-redirect", "auth-type", "auth-secret", "custom-headers",
           "canary-by-header", "canary-by-header-value", "canary-by-cookie",
           "proxy-read-timeout", "proxy-send-timeout", "proxy-connect-timeout",
           "ssl-passthrough", "backend-protocol", "grpc-backend", "proxy-body-size",
           "proxy-request-buffering", "session-cookie-expires", "session-cookie-max-age",
           "service-upstream", "from-to-www-redirect", "upstream-vhost",
           "secure-verify-ca-secret", "session-cookie-conditional-samesite-none",
           "session-cookie-change-on-failure", "client-body-buffer-size",
           "configuration-snippet", "server-snippet", "proxy-buffering", "upstream-hash-by",
           "load-balance"} |-> AGuide]

gatewayAPIGuides ==
  [k \in {"enable-cors", "cors-allow-origin", "cors-allow-methods", "cors-allow-headers",
           "cors-allow-credentials", "auth-url", "auth-response-headers", "limit-rps",
           "limit-rpm", "limit-connections", "affinity", "session-cookie-name",
           "proxy-read-timeout", "proxy-connect-timeout", "whitelist-source-range",
           "denylist-source-range", "ssl-passthrough", "backend-protocol", "affinity-mode",
           "proxy-body-size", "proxy-request-buffering", "proxy-http-version",
           "session-cookie-expires", "session-cookie-max-age", "service-upstream",
           "from-to-www-redirect", "upstream-vhost", "secure-verify-ca-secret",
           "session-cookie-conditional-samesite-none", "session-cookie-change-on-failure",
           "configuration-snippet", "server-snippet", "auth-type", "auth-secret",
           "load-balance", "upstream-hash-by"} |-> AGuide]

GetAnnotationGuide(tgt, annotationKey) ==
  IF tgt \notin {"traefik", "gateway-api"} THEN ZeroGuide
  ELSE LET guides == IF tgt = "traefik" THEN traefikGuides ELSE gatewayAPIGuides
       IN  IF annotationKey \in DOMAIN guides THEN guides[annotationKey] ELSE ZeroGuide

\* No lookup yet.
NoGuide == [target |-> "", key |-> "", guide |-> ZeroGuide]

\* ------------------------------------------------------- the Migrate page

\* The clicks a user makes on the Migrate page.
MaxClicks == 4

\* stepDefs: the checklist of each target, by category and whether the step
\* is manual; the page numbers the steps from 0.
StepDef(label, category, manual) == [label |-> label, category |-> category, manual |-> manual]

stepDefs ==
  "traefik" :>
    <<StepDef("Review Migration Report", "guide", TRUE),
      StepDef("Install Traefik v3", "install", TRUE),
      StepDef("Apply Middlewares", "middleware", FALSE),
      StepDef("Apply Updated Ingresses", "ingress", FALSE),
      StepDef("Verify Traefik", "verify", TRUE),
      StepDef("DNS Cutover", "guide", TRUE),
      StepDef("Remove NGINX", "cleanup", TRUE)>>
  @@ "gateway-api" :>
    <<StepDef("Review Migration Report", "guide", TRUE),
      StepDef("Install Gateway API CRDs", "install", TRUE),
      StepDef("Install Envoy Gateway", "install", TRUE),
      StepDef("Apply Gateway Resources", "gateway", FALSE),
      StepDef("Apply HTTPRoutes", "httproute", FALSE),
      StepDef("Apply Policies", "policy", FALSE),
      StepDef("Verify & DNS Cutover", "verify", TRUE),
      StepDef("Remove NGINX", "cleanup", TRUE)>>

\* The indices of the steps the page renders, and step i of them.
StepIndices == 0..(Len(stepDefs[page.target]) - 1)

StepAt(i) == stepDefs[page.target][i + 1]

\* The page as useState initialises it. migrateResult is the target the
\* files were generated for, "" for null; inflight holds the handleApply
\* calls that await the server's answer.
FreshPage ==
  [target |-> "traefik", error |-> FALSE, migrateResult |-> "", completedSteps |-> {},
   stepStatuses |-> EmptyMap, stepOutputs |-> EmptyMap, expandedStep |-> -1, activeTab |-> "checklist",
   inflight |-> {}, clicks |-> 0]

\* stepStatuses[i] ?? 'idle'
StatusOfStep(i) == IF i \in DOMAIN page.stepStatuses THEN page.stepStatuses[i] ELSE "idle"

\* The checklist is on screen.
ChecklistShown == page.migrateResult = "" \/ page.activeTab = "checklist"

Backend == <<scan, target, report, files, response, calls, runs, cluster, validation, guide>>

Clicked == page.clicks + 1

\* A click on a target button.
setTarget(t) ==
  /\ page.clicks < MaxClicks
  /\ page' = [page EXCEPT !.target = t, !.clicks = Clicked]
  /\ UNCHANGED Backend

\* A click on a tab; the tabs are there once files were generated.
setActiveTab(tab) ==
  /\ page.clicks < MaxClicks
  /\ page.migrateResult # ""
  /\ page' = [page EXCEPT !.activeTab = tab, !.clicks = Clicked]
  /\ UNCHANGED Backend

\* A click on Generate Migration Files, with the server's answer.
handleMigrate(ok) ==
  /\ page.clicks < MaxClicks
  /\ page' = IF ok
             THEN [page EXCEPT !.error = FALSE, !.migrateResult = page.target,
                               !.completedSteps = {}, !.stepStatuses = EmptyMap, !.stepOutputs = EmptyMap,
                               !.activeTab = "checklist", !.clicks = Clicked]
             ELSE [page EXCEPT !.error = TRUE, !.clicks = Clicked]
  /\ UNCHANGED Backend

\* A click on Dry-run or Apply of step stepIdx: handleApply up to its await.
\* The buttons are rendered when canApply holds and are disabled while the
\* step is running (Apply also once it is done).
handleApply(stepIdx, dryRun) ==
  /\ page.clicks < MaxClicks
  /\ ChecklistShown
  /\ stepIdx \in StepIndices
  /\ page.migrateResult # "" /\ ~StepAt(stepIdx).manual
  /\ StatusOfStep(stepIdx) \notin {"dry-running", "applying"}
  /\ ~dryRun => StatusOfStep(stepIdx) # "done"
  /\ page' = [page EXCEPT
                !.stepStatuses = (stepIdx :> (IF dryRun THEN "dry-running" ELSE "applying")) @@ @,
                !.inflight = @ \cup {[stepIdx |-> stepIdx, dryRun |-> dryRun]},
                !.clicks = Clicked]
  /\ UNCHANGED Backend

\* handleApply after its await: the server answered call with success or
\* not (a rejected request is handled as a failure).
handleApplyAnswered(call, success) ==
  /\ call \in page.inflight
  /\ page' = [page EXCEPT
                !.stepOutputs = (call.stepIdx :> success) @@ @,
                !.stepStatuses = (call.stepIdx :> (IF ~success THEN "error"
                                                   ELSE IF call.dryRun THEN "dry-run-ok" ELSE "done")) @@ @,
                !.completedSteps = IF success /\ ~call.dryRun THEN @ \cup {call.stepIdx} ELSE @,
                !.expandedStep = call.stepIdx,
                !.inflight = @ \ {call}]
  /\ UNCHANGED Backend

\* A click on the checkbox of step i.
toggleStep(i) ==
  /\ page.clicks < MaxClicks
  /\ ChecklistShown
  /\ i \in StepIndices
  /\ page' = [page EXCEPT
                !.completedSteps = IF i \in @ THEN @ \ {i} ELSE @ \cup {i},
                !.clicks = Clicked]
  /\ UNCHANGED Backend

\* A click on the output button of a step that has output.
setExpandedStep(i) ==
  /\ page.clicks < MaxClicks
  /\ ChecklistShown
  /\ i \in StepIndices /\ i \in DOMAIN page.stepOutputs
  /\ page' = [page EXCEPT !.expandedStep = IF page.expandedStep = i THEN -1 ELSE i,
                          !.clicks = Clicked]
  /\ UNCHANGED Backend

\* A lookup in the registry.
LookupGuide(tgt, annotationKey) ==
  /\ guide' = [target |-> tgt, key |-> annotationKey,
               guide |-> GetAnnotationGuide(tgt, annotationKey)]
  /\ UNCHANGED <<scan, target, report, files, response, calls, runs, cluster, validation, page>>

\* ------------------------------------------------- the calls of the analyzer

KnownTargets == {"traefik", "gateway-api"}

\* The target arguments a caller passes: the two dialects, one that is
\* neither, and none.
Targets == {"traefik", "gateway-api", "nginx-plus", ""}

\* NewAnalyzer(t).Analyze(scan), called directly.
AnalyzerAnalyze(t) ==
  /\ \E ords \in IterOrders(scan) : report' = Analyze(scan, t, ords)
  /\ target' = t
  /\ response' = "report"
  /\ calls' = Len(scan)
  /\ files' = <<>>
  /\ runs' = 0
  /\ UNCHANGED <<scan, cluster, validation, guide, page>>

\* GET /api/analyze?target=t
HandleAnalyze(t) ==
  /\ target' = t
  /\ IF t = ""
     THEN /\ response' = "bad-request"
          /\ report' = NoReport
          /\ calls' = 0
     ELSE /\ \E ords \in IterOrders(scan) : report' = Analyze(scan, t, ords)
          /\ response' = "report"
          /\ calls' = Len(scan)
  /\ files' = <<>>
  /\ runs' = 0
  /\ UNCHANGED <<scan, cluster, validation, guide, page>>

\* ing-switch analyze --target t
runAnalyze(t) ==
  /\ target' = t
  /\ IF t \notin {"traefik", "gateway-api"}
     THEN /\ response' = "bad-request"
          /\ report' = NoReport
          /\ calls' = 0
     ELSE /\ \E ords \in IterOrders(scan) : report' = Analyze(scan, t, ords)
          /\ response' = "report"
          /\ calls' = Len(scan)
  /\ files' = <<>>
  /\ runs' = 0
  /\ UNCHANGED <<scan, cluster, validation, guide, page>>

\* ------------------------------------------------ the calls of the migrators

\* The count of consecutive successful Migrate calls for target t, capped.
RunsAfter(t) == IF response = "files" /\ target = t THEN 2 ELSE 1

\* gatewayapi.NewMigrator().Migrate(scan, report), called directly.
GatewayMigrate ==
  /\ \E hostOrds \in HostOrders(scan) : files' = GatewayMigrateFiles(scan, hostOrds)
  /\ target' = "gateway-api"
  /\ response' = "files"
  /\ calls' = 0
  /\ runs' = RunsAfter("gateway-api")
  /\ UNCHANGED <<scan, report, cluster, validation, guide, page>>

\* traefik.NewMigrator().Migrate(scan, report), called directly.
TraefikMigrate ==
  /\ \E annOrds \in AnnotationOrders(scan), hostOrds \in HostOrders(scan) :
       files' = TraefikMigrateFiles(scan, annOrds, hostOrds)
  /\ scan' = TraefikMigrateScan(scan)
  /\ target' = "traefik"
  /\ response' = "files"
  /\ calls' = 0
  /\ runs' = RunsAfter("traefik")
  /\ UNCHANGED <<report, cluster, validation, guide, page>>

\* ing-switch migrate --target t, up to the list of files it hands to the
\* output generator.
runMigrate(t) ==
  /\ target' = t
  /\ IF t \notin {"traefik", "gateway-api"}
     THEN /\ response' = "bad-request"
          /\ report' = NoReport
          /\ calls' = 0
          /\ files' = <<>>
          /\ runs' = 0
     ELSE /\ \E ords \in IterOrders(scan) : report' = Analyze(scan, t, ords)
          /\ calls' = Len(scan)
          /\ IF t = "traefik"
             THEN \E annOrds \in AnnotationOrders(scan), hostOrds \in HostOrders(scan) :
                    files' = TraefikMigrateFiles(scan, annOrds, hostOrds)
             ELSE \E hostOrds \in HostOrders(scan) : files' = GatewayMigrateFiles(scan, hostOrds)
          /\ response' = "files"
          /\ runs' = RunsAfter(t)
  /\ scan' = IF t = "traefik" THEN TraefikMigrateScan(scan) ELSE scan
  /\ UNCHANGED <<cluster, validation, guide, page>>

\* ------------------------------------------- validation: gathering the facts

\* strings.Contains(s, sub)
ContainsStr(s, sub) ==
  \E i \in 1..(Len(s) - Len(sub) + 1) : SubSeq(s, i, i + Len(sub) - 1) = sub

\* Pods(ns).List with a label selector: the pods of namespace ns (of every
\* namespace for ns = "") that carry the label.
PodsList(pods, ns, selector) ==
  { p \in pods : (ns = "" \/ p.Namespace = ns) /\ selector \in p.Labels }

\* pods.Items[0] of a list that is not empty.
FirstItem(items) == CHOOSE p \in items : TRUE

candidateNamespaces == <<"ingress-nginx", "nginx-ingress", "kube-system", "traefik", "kong", "default">>

controllerSelectors ==
  <<[selector |-> "app.kubernetes.io/name=ingress-nginx", ctrlType |-> "ingress-nginx"],
    [selector |-> "app=ingress-nginx", ctrlType |-> "ingress-nginx"],
    [selector |-> "app.kubernetes.io/name=traefik", ctrlType |-> "traefik"],
    [selector |-> "app=traefik", ctrlType |-> "traefik"],
    [selector |-> "app=kong", ctrlType |-> "kong"],
    [selector |-> "app.kubernetes.io/name=kong", ctrlType |-> "kong"],
    [selector |-> "app.kubernetes.io/name=haproxy-ingress", ctrlType |-> "haproxy"]>>

UndetectedController == [Detected |-> FALSE, Type |-> "unknown", Namespace |-> "", PodName |-> ""]

\* The loops of detectController, at the j-th selector in the i-th candidate
\* namespace: the first pair with a pod decides, then the cluster-wide
\* search for ingress-nginx.
RECURSIVE detectLoop(_, _, _)
detectLoop(pods, i, j) ==
  IF i > Len(candidateNamespaces)
  THEN LET items == PodsList(pods, "", "app.kubernetes.io/name=ingress-nginx")
       IN  IF items # {}
           THEN [Detected |-> TRUE, Type |-> "ingress-nginx",
                 Namespace |-> FirstItem(items).Namespace, PodName |-> FirstItem(items).Name]
           ELSE UndetectedController
  ELSE IF j > Len(controllerSelectors) THEN detectLoop(pods, i + 1, 1)
  ELSE LET items == PodsList(pods, candidateNamespaces[i], controllerSelectors[j].selector)
       IN  IF items = {} THEN detectLoop(pods, i, j + 1)
           ELSE [Detected |-> TRUE, Type |-> controllerSelectors[j].ctrlType,
                 Namespace |-> candidateNamespaces[i], PodName |-> FirstItem(items).Name]

detectController(pods) == detectLoop(pods, 1, 1)

\* The version detectTargetController reads off a pod: the tag of its image.
versionOf(pod) ==
  LET parts == Split(pod.Image, ":")
  IN  IF Len(parts) >= 2 THEN parts[Len(parts)] ELSE ""

targetSelectors(tgt) ==
  IF tgt = "traefik" THEN <<"app.kubernetes.io/name=traefik", "app=traefik">>
  ELSE IF tgt = "gateway-api"
       THEN <<"app.kubernetes.io/name=envoy-gateway", "app=envoy-gateway", "control-plane=envoy-gateway">>
       ELSE <<>>

targetNamespaces(tgt) ==
  IF tgt = "traefik" THEN <<"traefik", "kube-system", "default", "ingress">>
  ELSE IF tgt = "gateway-api" THEN <<"envoy-gateway-system", "kube-system", "default">>
       ELSE <<>>

\* The loops of detectTargetController: the first listed pod that is
\* Running decides.
RECURSIVE targetLoop(_, _, _, _)
targetLoop(pods, tgt, i, j) ==
  IF i > Len(targetNamespaces(tgt)) THEN [running |-> FALSE, namespace |-> "", version |-> ""]
  ELSE IF j > Len(targetSelectors(tgt)) THEN targetLoop(pods, tgt, i + 1, 1)
  ELSE LET items == PodsList(pods, targetNamespaces(tgt)[i], targetSelectors(tgt)[j])
       IN  IF items # {} /\ FirstItem(items).Phase = "Running"
           THEN [running |-> TRUE, namespace |-> targetNamespaces(tgt)[i],
                 version |-> versionOf(FirstItem(items))]
           ELSE targetLoop(pods, tgt, i, j + 1)

detectTargetController(pods, tgt) == targetLoop(pods, tgt, 1, 1)

\* countResource: the number of resources listed, none without the CRDs.
countResource(installed, count) == IF installed THEN count ELSE 0

\* Scanner.Scan(ns) on the cluster: the Ingresses of namespace ns (all for
\* ns = "") and the detected controller.
Scan(ings, pods, ns) ==
  [Ingresses |-> SelectSeq(ings, LAMBDA ing : ns = "" \/ ing.Namespace = ns),
   Controller |-> detectController(pods)]

\* ------------------------------------- validation: checks, phase, next steps

\* A ValidationCheck; the messages are kept to their first sentence.
Check(name, status, message) == [Name |-> name, Status |-> status, Message |-> message]

appendTraefikChecks(targetRunning, namespace, version, crdInstalled, middlewareCount, ingressesUpdated, ingressTotal) ==
  <<IF targetRunning
    THEN Check("Traefik controller running (" \o version \o ")", "pass",
               "Traefik " \o version \o " is running in namespace '" \o namespace
                 \o "' and ready to serve traffic")
    ELSE Check("Traefik controller", "fail", "Traefik not detected."),
    IF crdInstalled
    THEN Check("Traefik CRDs installed", "pass", "traefik.io API group present")
    ELSE Check("Traefik CRDs", "fail", "Traefik CRDs not found.")>>
  \o (IF middlewareCount > 0
      THEN <<Check("Traefik Middlewares applied (" \o ToString(middlewareCount) \o " found)", "pass",
                   ToString(middlewareCount) \o " Middleware CRDs present")>>
      ELSE IF crdInstalled
           THEN <<Check("Traefik Middlewares", "warn", "No Middleware resources found.")>>
           ELSE <<>>)
  \o (IF ingressTotal > 0
      THEN IF ingressesUpdated = ingressTotal
           THEN <<Check("Ingresses updated for Traefik (" \o ToString(ingressesUpdated) \o "/"
                          \o ToString(ingressTotal) \o ")", "pass",
                        "All Ingresses have traefik.ingress.kubernetes.io/router.middlewares annotations applied.")>>
           ELSE IF ingressesUpdated > 0
                THEN <<Check("Ingresses updated for Traefik (" \o ToString(ingressesUpdated) \o "/"
                               \o ToString(ingressTotal) \o ")", "warn",
                             ToString(ingressesUpdated) \o " of " \o ToString(ingressTotal)
                               \o " Ingresses updated. Apply remaining files from 03-ingresses/.")>>
                ELSE <<Check("Ingresses updated for Traefik", "warn",
                             "No Ingresses have Traefik annotations yet.")>>
      ELSE <<>>)

appendGatewayAPIChecks(targetRunning, namespace, version, crdInstalled, httprouteCount, ingressTotal) ==
  <<IF targetRunning
    THEN Check("Envoy Gateway running (" \o version \o ")", "pass",
               "Envoy Gateway " \o version \o " is running in namespace '" \o namespace \o "'")
    ELSE Check("Envoy Gateway", "fail", "Envoy Gateway not detected."),
    IF crdInstalled
    THEN Check("Gateway API CRDs installed (v1.2+)", "pass", "gateway.networking.k8s.io CRDs present")
    ELSE Check("Gateway API CRDs", "fail", "Gateway API CRDs not found.")>>
  \o (IF httprouteCount > 0
      THEN <<Check("HTTPRoutes applied (" \o ToString(httprouteCount) \o " found)", "pass",
                   ToString(httprouteCount) \o " HTTPRoute resources present in cluster")>>
      ELSE IF crdInstalled
           THEN <<Check("HTTPRoutes", "warn", "No HTTPRoute resources found.")>>
           ELSE <<>>)
  \o (IF ingressTotal > 0 /\ httprouteCount > 0
      THEN LET coverage == (httprouteCount * 100) \div ingressTotal
               msg == ToString(httprouteCount) \o " HTTPRoutes cover " \o ToString(ingressTotal)
                        \o " original Ingresses (" \o ToString(coverage) \o "% coverage)"
           IN  <<IF coverage < 80
                 THEN Check("HTTPRoute coverage", "warn",
                            msg \o " - some Ingresses may not have corresponding HTTPRoutes yet")
                 ELSE Check("HTTPRoute coverage", "pass", msg)>>
      ELSE <<>>)

\* A phase switch that looks at the target controller alone.
PhaseOfTargetAlone(targetRunning, nginxPresent) ==
  IF targetRunning THEN "post-migration" ELSE "pre-migration"

\* The phase switch of runRichValidation.
PhaseOf(targetRunning, nginxPresent) ==
  IF targetRunning /\ ~nginxPresent THEN "post-migration"
  ELSE IF targetRunning /\ nginxPresent THEN "migrating"
  ELSE "pre-migration"

PhaseDescOf(phase) ==
  IF phase = "post-migration"
  THEN "Target controller is active. NGINX has been removed. Migration complete."
  ELSE IF phase = "migrating"
       THEN "Both NGINX and target controller are running. Zero-downtime parallel migration in progress."
       ELSE "NGINX is handling all traffic. Target controller not yet installed."

\* The loop over the checks that sets Overall, with `overall` so far.
RECURSIVE OverallOf(_, _)
OverallOf(checks, overall) ==
  IF checks = <<>> THEN overall
  ELSE IF Head(checks).Status = "fail" THEN "fail"
  ELSE IF Head(checks).Status = "warn" /\ overall # "fail" THEN OverallOf(Tail(checks), "warn")
  ELSE OverallOf(Tail(checks), overall)

buildNextSteps(tgt, phase, middlewareCount, httprouteCount, ingressesUpdated, ingressTotal) ==
  IF phase = "pre-migration"
  THEN IF tgt = "traefik"
       THEN <<"Generate migration files on the Migrate tab",
              "Review 00-migration-report.md to understand all changes",
              "Install Traefik alongside NGINX (safe - won't affect production traffic)">>
       ELSE <<"Generate migration files on the Migrate tab",
              "Review 00-migration-report.md for a full migration overview",
              "Install Gateway API CRDs (standard-install.yaml)",
              "Install Envoy Gateway alongside NGINX (safe - won't affect production traffic)">>
  ELSE IF phase = "migrating"
  THEN IF tgt = "traefik"
       THEN (IF middlewareCount = 0
             THEN <<"Apply Middleware CRDs (02-middlewares/) - creates routing rules">> ELSE <<>>)
            \o (IF ingressesUpdated < ingressTotal
                THEN <<"Apply updated Ingresses (03-ingresses/) - attaches middlewares">> ELSE <<>>)
            \o <<"Run 04-verify.sh to test Traefik handles traffic correctly",
                 "Update DNS to Traefik's LoadBalancer IP once verified",
                 "After DNS propagation: run 06-cleanup/ to remove NGINX">>
       ELSE (IF httprouteCount = 0
             THEN <<"Apply GatewayClass + Gateway (03-gateway/)",
                    "Apply HTTPRoutes (04-httproutes/)",
                    "Apply Policies if any (05-policies/)">>
             ELSE <<>>)
            \o <<"Run 06-verify.sh to test Envoy Gateway",
                 "Update DNS to Envoy Gateway's LoadBalancer IP once verified",
                 "After DNS propagation: run 07-cleanup/ to remove NGINX">>
  ELSE <<"Monitor application logs and metrics for 24+ hours",
         "Verify all TLS certificates renew correctly (cert-manager check)",
         "Keep NGINX Helm values.yaml as backup for emergency rollback",
         "Update any CI/CD pipelines to deploy new resource types">>

\* runRichValidation on a reachable cluster; listable says whether the
\* Ingresses of namespace ns can be listed (s.Scan(ns) returns no error).
runRichValidation(ings, clu, tgt, ns, listable) ==
  LET sr == Scan(ings, clu.pods, ns)
      ingressCount == IF listable THEN Len(sr.Ingresses) ELSE 0
      nginxPresent == listable /\ sr.Controller.Detected /\ sr.Controller.Type = "ingress-nginx"
      nginxNamespace == IF listable THEN sr.Controller.Namespace ELSE ""
      tc == detectTargetController(clu.pods, tgt)
      traefikCRDsInstalled ==
        \E g \in clu.groups : ContainsStr(g, "traefik.io") \/ ContainsStr(g, "traefik.containo.us")
      gatewayAPICRDsInstalled == \E g \in clu.groups : ContainsStr(g, "gateway.networking.k8s.io")
      middlewareCount == countResource(traefikCRDsInstalled, clu.middlewares)
      httprouteCount == countResource(gatewayAPICRDsInstalled, clu.httproutes)
      ingressesWithTraefikAnnotations ==
        IF listable
        THEN Len(SelectSeq(sr.Ingresses,
                           LAMBDA ing : \E k \in DOMAIN ing.Annotations :
                                          ContainsStr(k, "traefik.ingress.kubernetes.io")))
        ELSE 0
      checks ==
        <<IF ingressCount > 0
          THEN Check("Ingress resources detected (" \o ToString(ingressCount) \o " total)", "pass",
                     ToString(ingressCount) \o " Ingress objects found across the cluster")
          ELSE Check("Ingress resources", "warn", "No Ingress resources found. Run a cluster scan first."),
          IF nginxPresent
          THEN Check("Ingress NGINX running", "warn",
                     "Ingress NGINX running in '" \o nginxNamespace \o "'.")
          ELSE Check("Ingress NGINX", "pass",
                     "Ingress NGINX not detected. Either not installed or successfully removed.")>>
        \o (IF tgt = "traefik"
            THEN appendTraefikChecks(tc.running, tc.namespace, tc.version, traefikCRDsInstalled,
                                     middlewareCount, ingressesWithTraefikAnnotations, ingressCount)
            ELSE IF tgt = "gateway-api"
                 THEN appendGatewayAPIChecks(tc.running, tc.namespace, tc.version,
                                             gatewayAPICRDsInstalled, httprouteCount, ingressCount)
                 ELSE <<>>)
      phase == PhaseOf(tc.running, nginxPresent)
  IN  [Target |-> tgt, Phase |-> phase, PhaseDesc |-> PhaseDescOf(phase), Checks |-> checks,
       Overall |-> OverallOf(checks, "pass"),
       NextSteps |-> buildNextSteps(tgt, phase, middlewareCount, httprouteCount,
                                    ingressesWithTraefikAnnotations, ingressCount)]

\* GET /api/validate?target=t&namespace=ns, while the Ingresses of ns can
\* (listable) or cannot be listed.
HandleValidate(t, ns, listable) ==
  /\ validation' = runRichValidation(scan, cluster, t, ns, listable)
  /\ response' = "validation"
  /\ UNCHANGED <<scan, target, report, files, calls, runs, cluster, guide, page>>

\* ----------------------------------------------------------------- fleets

\* Names of the Ingresses of a fleet, by rank.
NamePool == <<"a", "b", "c", "shop">>

\* An Ingress as the API server returns it, with one rule and one path.
PlainIngress(ns, name, annotations) ==
  [Namespace |-> ns, Name |-> name, IngressClassName |-> "nginx", TLS |-> <<>>,
   Rules |-> <<[Host |-> "a.example.com",
                Paths |-> <<[Path |-> "/", PathType |-> "Prefix",
                             ServiceName |-> "web", ServicePort |-> 80]>>]>>,
   Annotations |-> annotations]

\* The annotation maps that carry at most n of the nginx annotations of
\* `vals` (short key -> value), under their full keys.
AnnotationMaps(vals, n) ==
  { [k \in { nginxAnnotationPrefix \o s : s \in ks } |-> vals[TrimPrefix(k, nginxAnnotationPrefix)]] :
      ks \in { x \in SUBSET DOMAIN vals : Cardinality(x) <= n } }

\* Annotations of the analyzer's fleets: supported by both targets,
\* supported by one and partial for the other, partial and unsupported,
\* and one that neither table knows.
ClassifyAnnotations ==
  "ssl-redirect" :> "true" @@ "limit-rps" :> "50" @@ "auth-type" :> "basic" @@ "server-alias" :> "b.example.com"

\* The number of annotations of the maps f assigns to the names in N.
RECURSIVE Annotated(_, _)
Annotated(f, N) ==
  IF N = {} THEN 0
  ELSE LET n == CHOOSE x \in N : TRUE
       IN  Cardinality(DOMAIN f[n]) + Annotated(f, N \ {n})

\* The ways to give the Ingresses named in N annotation maps drawn from
\* `maps`, with at most `most` annotations in all.
AnnotateUpTo(N, maps, most) == { f \in [N -> maps] : Annotated(f, N) <= most }

Annotate(N, maps) == AnnotateUpTo(N, maps, MaxAnn)

\* The fleets of at most MaxRoutes Ingresses of namespace default whose
\* annotation maps are drawn from `maps`.
FleetsOver(maps) ==
  UNION { { listIngresses({ PlainIngress("default", n, f[n]) : n \in N }) : f \in Annotate(N, maps) } :
          N \in SUBSET { NamePool[i] : i \in 1..MaxRoutes } }

Quiet ==
  /\ guide = NoGuide
  /\ page = FreshPage
  /\ target = ""
  /\ report = NoReport
  /\ files = <<>>
  /\ response = "none"
  /\ calls = 0
  /\ runs = 0
  /\ validation = NoValidation

InitClassify ==
  /\ cluster = BareCluster
  /\ scan \in FleetsOver(AnnotationMaps(ClassifyAnnotations, MaxAnn))
  /\ Quiet

NextClassify ==
  \/ \E t \in Targets : AnalyzerAnalyze(t)
  \/ \E t \in Targets : HandleAnalyze(t)
  \/ \E t \in Targets : runAnalyze(t)

SpecClassify == InitClassify /\ [][NextClassify]_vars

\* -------------------------------------------------- clusters under validation

MaxPods == 2

Pod(name, ns, label, phase, image) ==
  [Name |-> name, Namespace |-> ns, Labels |-> {label}, Phase |-> phase, Image |-> image]

\* Controller pods, at most one for a namespace and a label.
PodPool ==
  {Pod("ingress-nginx-controller", "ingress-nginx", "app.kubernetes.io/name=ingress-nginx",
       "Running", "registry.k8s.io/ingress-nginx/controller:v1.9.4"),
   Pod("edge-nginx", "default", "app.kubernetes.io/name=ingress-nginx",
       "Running", "registry.k8s.io/ingress-nginx/controller:v1.9.4"),
   Pod("traefik-0", "traefik", "app.kubernetes.io/name=traefik", "Running", "traefik:v3.0"),
   Pod("traefik-1", "kube-system", "app=traefik", "Pending", "traefik:v3.0"),
   Pod("envoy-gateway-0", "envoy-gateway-system", "control-plane=envoy-gateway",
       "Running", "envoyproxy/gateway:v1.2.0")}

Clusters ==
  [pods : { P \in SUBSET PodPool : Cardinality(P) <= MaxPods },
   groups : SUBSET {"traefik.io", "gateway.networking.k8s.io"},
   middlewares : 0..1,
   httproutes : 0..1]

\* The namespace of the Ingress of each name.
NamespaceOf(name) == IF name \in {"a", "c"} THEN "default" ELSE "shop"

\* The annotations of an Ingress before and after the Traefik Ingresses of
\* 03-ingresses/ are applied.
ValidateAnnotations ==
  {EmptyMap, "traefik.ingress.kubernetes.io/router.middlewares" :> "default-a-ssl-redirect@kubernetescrd"}

\* The fleets of the first k names, for every k up to MaxRoutes.
ValidateFleets ==
  UNION { LET N == { NamePool[i] : i \in 1..k }
          IN  { listIngresses({ PlainIngress(NamespaceOf(n), n, f[n]) : n \in N }) :
                f \in [N -> ValidateAnnotations] } :
          k \in 0..MaxRoutes }

InitValidate ==
  /\ cluster \in Clusters
  /\ scan \in ValidateFleets
  /\ Quiet

NextValidate ==
  \E t \in KnownTargets \cup {"nginx-plus"}, ns \in {"", "default"}, listable \in BOOLEAN :
    HandleValidate(t, ns, listable)

SpecValidate == InitValidate /\ [][NextValidate]_vars

\* ------------------------------------------------- fleets of the migrators

\* The (namespace, name) pairs of the migrators' fleets: pairwise distinct,
\* two of them with the same namespace-name concatenation.
Identities == {<<"a", "b-c">>, <<"a-b", "c">>, <<"default", "shop">>}

WebPath(path, pathType) ==
  [Path |-> path, PathType |-> pathType, ServiceName |-> "web", ServicePort |-> 80]

\* The TLS secrets and rules of the migrators' Ingresses.
PlainShape ==
  [TLS |-> <<>>,
   Rules |-> <<[Host |-> "a.example.com", Paths |-> <<WebPath("/", "Prefix")>>]>>]

OneHostTLS ==
  [TLS |-> <<"tls-a">>,
   Rules |-> <<[Host |-> "a.example.com", Paths |-> <<WebPath("/", "Prefix")>>]>>]

\* Two secrets and two hosts, the rules not in sorted host order.
TwoHostTLS ==
  [TLS |-> <<"tls-b", "tls-a">>,
   Rules |-> <<[Host |-> "b.example.com", Paths |-> <<WebPath("/", "Prefix")>>],
               [Host |-> "a.example.com", Paths |-> <<WebPath("/api", "Exact")>>]>>]

\* TLS on a rule without a host or a path.
HostlessTLS ==
  [TLS |-> <<"tls-any">>,
   Rules |-> <<[Host |-> "", Paths |-> <<WebPath("", "")>>]>>]

\* The shapes each identity takes in the fleets.
ShapesOf(id) ==
  IF id = <<"a", "b-c">> THEN {TwoHostTLS}
  ELSE IF id = <<"a-b", "c">> THEN {PlainShape, OneHostTLS}
  ELSE {PlainShape, HostlessTLS}

ShapedIngress(id, shape, annotations) ==
  [Namespace |-> id[1], Name |-> id[2], IngressClassName |-> "nginx", TLS |-> shape.TLS,
   Rules |-> shape.Rules, Annotations |-> annotations]

\* The ways to give each identity of N one of its shapes.
ShapesFor(N) ==
  { sh \in [N -> {PlainShape, OneHostTLS, TwoHostTLS, HostlessTLS}] : \A id \in N : sh[id] \in ShapesOf(id) }

\* The fleets of at most MaxRoutes Ingresses with identities of Identities,
\* each in one of its shapes, and annotation maps drawn from `maps`, with at
\* most MaxMigAnn annotations in all.
ShapedFleetsOver(maps) ==
  UNION { { listIngresses({ ShapedIngress(id, sh[id], f[id]) : id \in N }) :
              f \in AnnotateUpTo(N, maps, MaxMigAnn), sh \in ShapesFor(N) } :
          N \in { x \in SUBSET Identities : Cardinality(x) <= MaxRoutes } }

\* Annotations of the Gateway API migrator's fleets: the two redirects, on
\* and off, and the two source-range lists.
GatewayAnnotations ==
  "ssl-redirect" :> "true" @@ "force-ssl-redirect" :> "true"
  @@ "whitelist-source-range" :> "10.0.0.0/8, 192.168.0.0/16" @@ "denylist-source-range" :> "1.2.3.4/32"

GatewayAnnotationsOff ==
  "ssl-redirect" :> "false" @@ "force-ssl-redirect" :> "true"
  @@ "whitelist-source-range" :> "10.0.0.0/8, 192.168.0.0/16" @@ "denylist-source-range" :> "1.2.3.4/32"

InitGateway ==
  /\ cluster = BareCluster
  /\ scan \in ShapedFleetsOver(AnnotationMaps(GatewayAnnotations, MaxMigAnn)
                               \cup AnnotationMaps(GatewayAnnotationsOff, MaxMigAnn))
  /\ Quiet

NextGateway ==
  \/ GatewayMigrate
  \/ \E t \in {"gateway-api", "nginx-plus", ""} : runMigrate(t)

SpecGateway == InitGateway /\ [][NextGateway]_vars

\* Annotations of the Traefik migrator's fleets: two that become
\* middlewares and are deleted, and two that the updated Ingress keeps.
TraefikAnnotations ==
  "ssl-redirect" :> "true" @@ "limit-rps" :> "50"
  @@ "proxy-body-size" :> "8m" @@ "proxy-read-timeout" :> "60"

InitTraefik ==
  /\ cluster = BareCluster
  /\ scan \in ShapedFleetsOver(AnnotationMaps(TraefikAnnotations, MaxMigAnn))
  /\ Quiet

NextTraefik ==
  \/ TraefikMigrate
  \/ \E t \in {"traefik", "nginx-plus", ""} : runMigrate(t)

SpecTraefik == InitTraefik /\ [][NextTraefik]_vars

\* Annotations of the fleets both migrators lay out: one that becomes a
\* middleware or a redirect route, one a middleware or a rate-limit policy,
\* one a middleware or an IP filter policy.
LayoutAnnotations ==
  "ssl-redirect" :> "true" @@ "limit-rps" :> "50" @@ "whitelist-source-range" :> "10.0.0.0/8"

InitLayout ==
  /\ cluster = BareCluster
  /\ scan \in ShapedFleetsOver(AnnotationMaps(LayoutAnnotations, MaxMigAnn))
  /\ Quiet

NextLayout ==
  \/ GatewayMigrate
  \/ TraefikMigrate

SpecLayout == InitLayout /\ [][NextLayout]_vars

\* Annotations of the fleets whose middlewares are followed into the updated
\* Ingress: three that become middlewares, one that does not, and the
\* redirect switched off.
MiddlewareAnnotations ==
  "ssl-redirect" :> "true" @@ "limit-rps" :> "50" @@ "auth-type" :> "basic" @@ "proxy-body-size" :> "8m"

MiddlewareAnnotationsOff ==
  "ssl-redirect" :> "false" @@ "limit-rps" :> "50" @@ "auth-type" :> "basic" @@ "proxy-body-size" :> "8m"

InitMiddlewares ==
  /\ cluster = BareCluster
  /\ scan \in ShapedFleetsOver(AnnotationMaps(MiddlewareAnnotations, MaxMigAnn)
                               \cup AnnotationMaps(MiddlewareAnnotationsOff, MaxMigAnn))
  /\ Quiet

NextMiddlewares == TraefikMigrate

SpecMiddlewares == InitMiddlewares /\ [][NextMiddlewares]_vars

\* Rules whose paths have no regex characters: a prefix, an exact and an
\* implementation-specific path.
PlainPaths ==
  [TLS |-> <<>>,
   Rules |-> <<[Host |-> "a.example.com",
                Paths |-> <<WebPath("/", "Prefix"), WebPath("/api", "Exact"),
                            WebPath("/static", "ImplementationSpecific")>>]>>]

\* Rules whose paths have regex characters, under each path type.
RegexPaths ==
  [TLS |-> <<>>,
   Rules |-> <<[Host |-> "a.example.com",
                Paths |-> <<WebPath("/v(1|2)/items", "Prefix"), WebPath("/item/[0-9]{3}", "Exact"),
                            WebPath("/files/(.*)", "ImplementationSpecific")>>]>>]

\* Annotations that shape the rules of an HTTPRoute: the regex flag, the two
\* timeouts, and a weighted canary.
RouteAnnotations ==
  "use-regex" :> "true" @@ "proxy-read-timeout" :> "60" @@ "proxy-connect-timeout" :> "5"
  @@ "canary" :> "true" @@ "canary-weight" :> "20"

\* The fleets of at most MaxRoutes Ingresses of namespace default, each with
\* plain or regex paths, with at most MaxMigAnn annotations of `maps` in all.
PathFleetsOver(maps) ==
  UNION { { listIngresses({ ShapedIngress(<<"default", n>>, sh[n], f[n]) : n \in N }) :
              f \in AnnotateUpTo(N, maps, MaxMigAnn), sh \in [N -> {PlainPaths, RegexPaths}] } :
          N \in SUBSET { NamePool[i] : i \in 1..MaxRoutes } }

InitRoutes ==
  /\ cluster = BareCluster
  /\ scan \in PathFleetsOver(AnnotationMaps(RouteAnnotations, MaxMigAnn))
  /\ Quiet

NextRoutes == GatewayMigrate

SpecRoutes == InitRoutes /\ [][NextRoutes]_vars

\* Annotations whose values the migrators write into numeric fields, with
\* values that are numbers and with values that are not.
NumericAnnotations ==
  "limit-rps" :> "50" @@ "proxy-read-timeout" :> "60" @@ "canary" :> "true" @@ "canary-weight" :> "20"

NonNumericAnnotations ==
  "limit-rps" :> "fast" @@ "proxy-read-timeout" :> "1m" @@ "canary" :> "true" @@ "canary-weight" :> "half"

InitValues ==
  /\ cluster = BareCluster
  /\ scan \in PathFleetsOver(AnnotationMaps(NumericAnnotations, MaxMigAnn)
                             \cup AnnotationMaps(NonNumericAnnotations, MaxMigAnn))
  /\ Quiet

NextValues ==
  \/ GatewayMigrate
  \/ TraefikMigrate

SpecValues == InitValues /\ [][NextValues]_vars

\* Annotations of the fleets that are classified and migrated in one run: an
\* NGINX configuration snippet, and annotations both migrators translate.
SnippetAnnotations ==
  "configuration-snippet" :> "more_set_headers X-Frame-Options:DENY;" @@ "ssl-redirect" :> "true"
    @@ "limit-rps" :> "50" @@ "rewrite-target" :> "/"

InitSnippet ==
  /\ cluster = BareCluster
  /\ scan \in PathFleetsOver(AnnotationMaps(SnippetAnnotations, MaxMigAnn))
  /\ Quiet

NextSnippet == \E t \in KnownTargets : runMigrate(t)

SpecSnippet == InitSnippet /\ [][NextSnippet]_vars

\* The keys looked up in the registry: those of the two tables, those of the
\* registry, and one that is in neither.
GuideKeys ==
  DOMAIN traefikMappings \cup DOMAIN gatewayAPIMappings \cup DOMAIN traefikGuides
    \cup DOMAIN gatewayAPIGuides \cup {"no-such-annotation"}

InitGuides ==
  /\ cluster = BareCluster
  /\ scan = <<>>
  /\ Quiet

NextGuides == \E tgt \in Targets, annotationKey \in GuideKeys : LookupGuide(tgt, annotationKey)

SpecGuides == InitGuides /\ [][NextGuides]_vars

\* The Migrate page over a scan of one Ingress (without a scan the page
\* renders nothing to click).
InitPage ==
  /\ cluster = BareCluster
  /\ scan = listIngresses({PlainIngress("default", "a", EmptyMap)})
  /\ Quiet

NextPage ==
  \/ \E t \in KnownTargets : setTarget(t)
  \/ \E tab \in {"checklist", "files", "gaps"} : setActiveTab(tab)
  \/ \E ok \in BOOLEAN : handleMigrate(ok)
  \/ \E stepIdx \in StepIndices, dryRun \in BOOLEAN : handleApply(stepIdx, dryRun)
  \/ \E call \in page.inflight, success \in BOOLEAN : handleApplyAnswered(call, success)
  \/ \E i \in StepIndices : toggleStep(i)
  \/ \E i \in StepIndices : setExpandedStep(i)

SpecPage == InitPage /\ [][NextPage]_vars

\* Annotations of the fleets the scanner tiers and the analyzer classifies:
\* one the scanner calls unsupported that the Traefik table calls partial,
\* one both call unsupported, one only the table calls unsupported, and one
\* the scanner calls complex.
TierAnnotations ==
  "proxy-body-size" :> "8m" @@ "client-body-buffer-size" :> "16k"
    @@ "configuration-snippet" :> "more_set_headers X-Frame-Options:DENY;" @@ "limit-rps" :> "50"

InitTiers ==
  /\ cluster = BareCluster
  /\ scan \in FleetsOver(AnnotationMaps(TierAnnotations, MaxAnn))
  /\ Quiet

NextTiers == \E t \in KnownTargets : AnalyzerAnalyze(t)

SpecTiers == InitTiers /\ [][NextTiers]_vars

\* Annotations of the fleets whose paths Traefik rewrites and whose rate it
\* limits per minute: a rewrite target with a capture group and one without,
\* the regex flag stated as "true" and as "false".
RewriteAnnotations ==
  "rewrite-target" :> "/$2" @@ "use-regex" :> "true" @@ "limit-rpm" :> "120"

RewriteAnnotationsOff ==
  "rewrite-target" :> "/new" @@ "use-regex" :> "false" @@ "limit-rpm" :> "120"

InitRewrite ==
  /\ cluster = BareCluster
  /\ scan \in PathFleetsOver(AnnotationMaps(RewriteAnnotations, MaxMigAnn)
                             \cup AnnotationMaps(RewriteAnnotationsOff, MaxMigAnn))
  /\ Quiet

NextRewrite == TraefikMigrate

SpecRewrite == InitRewrite /\ [][NextRewrite]_vars

\* Annotations of the fleets whose Gateway API output is compared with and
\* without each annotation: the table calls permanent-redirect supported
\* (HTTPRoute RequestRedirect) and affinity and limit-rps partial
\* (BackendLBPolicy, BackendTrafficPolicy).
CoverageAnnotations ==
  "permanent-redirect" :> "https://shop.example.com" @@ "affinity" :> "cookie" @@ "limit-rps" :> "50"

InitCoverage ==
  /\ cluster = BareCluster
  /\ scan \in PathFleetsOver(AnnotationMaps(CoverageAnnotations, MaxMigAnn))
  /\ Quiet

NextCoverage == GatewayMigrate

SpecCoverage == InitCoverage /\ [][NextCoverage]_vars

\* Annotations of the fleets that are classified and migrated in any order:
\* two the Traefik migrator deletes from its copy of the annotations, one
\* it keeps.
FrameAnnotations ==
  "ssl-redirect" :> "true" @@ "limit-rps" :> "50" @@ "auth-type" :> "basic"

InitFrame ==
  /\ cluster = BareCluster
  /\ scan \in FleetsOver(AnnotationMaps(FrameAnnotations, MaxMigAnn))
  /\ Quiet

NextFrame ==
  \/ \E t \in KnownTargets : AnalyzerAnalyze(t)
  \/ GatewayMigrate
  \/ TraefikMigrate

SpecFrame == InitFrame /\ [][NextFrame]_vars

\* ------------------------------------------------ properties of the analyzer

\* A report was returned for one of the two dialects.
Reported == response = "report" /\ target \in KnownTargets

StatusesOf(ir) == { ir.Mappings[j].Status : j \in DOMAIN ir.Mappings }

\* C1: for either target, a route's overallStatus is "breaking" exactly when
\* one of its mappings is unsupported, otherwise "workaround" exactly when
\* one is partial, otherwise "ready" (so also with no nginx annotation),
\* whatever the number of mappings and the order they were visited in.
C1_OverallStatusPrecedence ==
  Reported =>
    \A i \in DOMAIN report.IngressReports :
      LET ir == report.IngressReports[i]
      IN  /\ ir.OverallStatus \in {"breaking", "workaround", "ready"}
          /\ ir.OverallStatus = "breaking" <=> StatusUnsupported \in StatusesOf(ir)
          /\ ir.OverallStatus = "workaround" <=>
               (StatusUnsupported \notin StatusesOf(ir) /\ StatusPartial \in StatusesOf(ir))
          /\ ir.OverallStatus = "ready" <=>
               (StatusUnsupported \notin StatusesOf(ir) /\ StatusPartial \notin StatusesOf(ir))

\* A route whose unsupported mapping was visited first and followed by a
\* partial and a supported one is reported breaking.
C1_Witness ==
  /\ Reported
  /\ \E i \in DOMAIN report.IngressReports :
       LET ir == report.IngressReports[i]
       IN  /\ Len(ir.Mappings) = 3
           /\ ir.Mappings[1].Status = StatusUnsupported
           /\ ir.Mappings[2].Status = StatusPartial
           /\ ir.Mappings[3].Status = StatusSupported
           /\ ir.OverallStatus = "breaking"

StatusRank(st) == IF st = StatusUnsupported THEN 0 ELSE IF st = StatusPartial THEN 1 ELSE 2

\* C7: in every route report the unsupported mappings come first, then the
\* partial, then the supported ones, and the order of the mappings is the
\* same whatever order the route's annotation map is visited in.
C7_MappingsOrdered ==
  Reported =>
    /\ \A i \in DOMAIN report.IngressReports :
         LET ms == report.IngressReports[i].Mappings
         IN  \A j, k \in DOMAIN ms : j < k => StatusRank(ms[j].Status) <= StatusRank(ms[k].Status)
    /\ \A ords \in IterOrders(scan) : Analyze(scan, target, ords) = report

\* C8: a call on a fleet of routes whose target is neither dialect is
\* rejected before any route is classified: it returns an error, no report
\* and no artifact.
C8_UnknownTargetRejected ==
  (response # "none" /\ target \notin KnownTargets /\ Len(scan) > 0) =>
    /\ response = "bad-request"
    /\ calls = 0
    /\ report = NoReport
    /\ files = <<>>

\* C9: for a known target a route's report has exactly one mapping per nginx
\* annotation of the route; the mapping of a key the target's table holds
\* has the table's status, and the mapping of a key it does not hold is
\* unsupported with the manual-review note (and the call returns a report).
C9_OneMappingPerAnnotation ==
  Reported =>
    /\ Len(report.IngressReports) = Len(scan)
    /\ \A i \in DOMAIN report.IngressReports :
         LET ms == report.IngressReports[i].Mappings
             ann == scan[i].NginxAnnotations
             table == IF target = "traefik" THEN traefikMappings ELSE gatewayAPIMappings
         IN  /\ Len(ms) = Cardinality(DOMAIN ann)
             /\ \A k \in DOMAIN ann : \E j \in DOMAIN ms : ms[j].OriginalKey = k
             /\ \A j \in DOMAIN ms :
                  /\ ms[j].OriginalKey \in DOMAIN ann
                  /\ ms[j].OriginalValue = ann[ms[j].OriginalKey]
                  /\ ms[j].OriginalKey \in DOMAIN table =>
                       ms[j].Status = table[ms[j].OriginalKey].Status
                  /\ ms[j].OriginalKey \notin DOMAIN table =>
                       /\ ms[j].Status = StatusUnsupported
                       /\ ms[j].Note = NoteUnknownAnnotation

\* A route with an annotation of the table and one the table does not hold
\* got a mapping for each.
C9_Witness ==
  /\ Reported
  /\ \E i \in DOMAIN report.IngressReports :
       LET ms == report.IngressReports[i].Mappings
       IN  \E j, k \in DOMAIN ms :
             /\ ms[j].OriginalKey = "server-alias" /\ ms[j].Status = StatusUnsupported
             /\ ms[k].OriginalKey = "limit-rps" /\ ms[k].Status # StatusUnsupported

\* The number of route reports with overallStatus st.
NumWithStatus(st) ==
  Cardinality({ i \in DOMAIN report.IngressReports : report.IngressReports[i].OverallStatus = st })

\* C10: the fleet report holds one route report per input route, in input
\* order, each the report the route gets when classified alone; Total is the
\* number of routes and the three other counters are the numbers of route
\* reports that are ready, workaround and breaking (so they sum to Total).
C10_FleetReduction ==
  response = "report" =>
    /\ Len(report.IngressReports) = Len(scan)
    /\ \A i \in DOMAIN scan :
         \E ord \in Perms(DOMAIN scan[i].NginxAnnotations) :
           report.IngressReports[i] = analyzeIngress(scan[i], target, ord)
    /\ report.Summary.Total = Len(scan)
    /\ report.Summary.FullyCompatible = NumWithStatus("ready")
    /\ report.Summary.NeedsWorkaround = NumWithStatus("workaround")
    /\ report.Summary.HasUnsupported = NumWithStatus("breaking")
    /\ report.Summary.FullyCompatible + report.Summary.NeedsWorkaround
         + report.Summary.HasUnsupported = report.Summary.Total

\* A fleet of two routes, one reported workaround and one breaking.
C10_Witness ==
  /\ response = "report"
  /\ Len(report.IngressReports) = 2
  /\ report.IngressReports[1].OverallStatus = "workaround"
  /\ report.IngressReports[2].OverallStatus = "breaking"
  /\ report.Summary.Total = 2

\* ------------------------------------- properties of the Gateway API migrator

\* The Gateway API migrator returned its files.
GatewayFiles == response = "files" /\ target = "gateway-api"

\* The HTTPRoute files, one per Ingress, in fleet order.
RouteFiles == SelectSeq(files, LAMBDA f : f.Category = "httproute")

\* The route has one of the two redirect annotations set to "true".
RedirectEnabled(ing) ==
  Get(ing.NginxAnnotations, "ssl-redirect") = "true"
    \/ Get(ing.NginxAnnotations, "force-ssl-redirect") = "true"

FilterTypes(rule) == { rule.filters[k].type : k \in DOMAIN rule.filters }

\* C2: a route with ssl-redirect or force-ssl-redirect "true" gets exactly
\* two HTTPRoute objects, <name>-redirect and <name>; every rule of the first
\* carries only a RequestRedirect filter and no backendRefs, no rule of the
\* second carries a RequestRedirect filter; any other route gets exactly one
\* HTTPRoute object.
C2_RedirectBackendSplit ==
  GatewayFiles =>
    /\ Len(RouteFiles) = Len(scan)
    /\ \A i \in DOMAIN scan :
         LET docs == RouteFiles[i].Content
         IN  IF RedirectEnabled(scan[i])
             THEN /\ Len(docs) = 2
                  /\ docs[1].name = scan[i].Name \o "-redirect"
                  /\ docs[2].name = scan[i].Name
                  /\ \A r \in DOMAIN docs[1].rules :
                       /\ FilterTypes(docs[1].rules[r]) = {"RequestRedirect"}
                       /\ Len(docs[1].rules[r].filters) = 1
                       /\ docs[1].rules[r].backendRefs = <<>>
                       /\ docs[1].rules[r].commented = <<>>
                  /\ \A r \in DOMAIN docs[2].rules :
                       "RequestRedirect" \notin FilterTypes(docs[2].rules[r])
             ELSE Len(docs) = 1

\* A fleet with a redirecting route of two rules, split in two objects, next
\* to a route whose ssl-redirect is "false", left as one object.
C2_Witness ==
  /\ GatewayFiles
  /\ \E i, j \in DOMAIN scan :
       /\ RedirectEnabled(scan[i])
       /\ Len(RouteFiles[i].Content) = 2
       /\ Len(RouteFiles[i].Content[1].rules) = 2
       /\ Len(RouteFiles[i].Content[2].rules) = 2
       /\ Get(scan[j].NginxAnnotations, "ssl-redirect") = "false"
       /\ Len(RouteFiles[j].Content) = 1

\* The Gateway document among the files.
GatewayDoc == SelectSeq(files, LAMBDA f : f.RelPath = "03-gateway/gateway.yaml")[1].Content

\* C3: for every route with the redirect enabled, the redirect object's only
\* parentRef names section http, and the backend object's only parentRef
\* names an HTTPS listener of the Gateway whose hostname is the route's
\* primary host: never no section and never the plaintext one.
C3_ListenerBinding ==
  GatewayFiles =>
    \A i \in DOMAIN scan :
      RedirectEnabled(scan[i]) =>
        LET docs == RouteFiles[i].Content
            section == docs[2].parentRefs[1].sectionName
        IN  /\ Len(docs[1].parentRefs) = 1
            /\ docs[1].parentRefs[1].sectionName = "http"
            /\ Len(docs[2].parentRefs) = 1
            /\ section \notin {"", "http"}
            /\ \E l \in DOMAIN GatewayDoc.listeners :
                 /\ GatewayDoc.listeners[l].name = section
                 /\ GatewayDoc.listeners[l].protocol = "HTTPS"
                 /\ Len(scan[i].Hosts) > 0
                 /\ GatewayDoc.listeners[l].hostname = scan[i].Hosts[1]

\* C4: for either target and any fleet of routes with pairwise distinct
\* (namespace, name), no two of the returned files share a RelPath.
C4_RelPathsUnique ==
  response = "files" =>
    \A i, j \in DOMAIN files : i # j => files[i].RelPath # files[j].RelPath

\* C6: a Gateway API Migrate call that follows one on the same fleet returns
\* the same files: the same RelPaths in the same order with the same
\* content, whatever order the maps are visited in.
C6_GatewayIdempotent ==
  [][(GatewayFiles /\ response' = "files" /\ target' = "gateway-api" /\ scan' = scan)
       => files' = files]_vars

\* A second call on a fleet with a policy and a TLS route of two hosts whose
\* rules are not listed in sorted host order.
C6_Witness ==
  /\ GatewayFiles
  /\ runs = 2
  /\ \E f \in DOMAIN files : files[f].Category = "policy"
  /\ \E i \in DOMAIN scan :
       /\ Len(scan[i].Hosts) = 2
       /\ scan[i].Paths[1].Host # scan[i].Hosts[1]
       /\ Len(scan[i].TLSSecrets) = 2

\* --------------------------------------- properties of the Traefik migrator

\* The Traefik migrator returned its files.
TraefikFiles == response = "files" /\ target = "traefik"

\* C5: a Traefik Migrate call that follows one on the same fleet returns the
\* same files: the same RelPaths in the same order with the same content,
\* whatever order the annotation maps and the per-host path groups are
\* visited in.
C5_TraefikIdempotent ==
  [][(TraefikFiles /\ response' = "files" /\ target' = "traefik" /\ scan' = scan)
       => files' = files]_vars

\* The two facts as the validation result reports them.
LegacyReported(v) == \E i \in DOMAIN v.Checks : v.Checks[i].Name = "Ingress NGINX running"

TargetReported(v) ==
  \E i \in DOMAIN v.Checks :
    /\ v.Checks[i].Status = "pass"
    /\ \/ HasPrefix(v.Checks[i].Name, "Traefik controller running")
       \/ HasPrefix(v.Checks[i].Name, "Envoy Gateway running")

\* The phase the specification gives to the two facts.
PhaseTable(legacy, ready) ==
  IF ready /\ legacy THEN "migrating"
  ELSE IF ready /\ ~legacy THEN "post-migration"
  ELSE "pre-migration"

\* C11: every validation result carries the phase of its two facts alone,
\* legacy controller present and target controller ready: pre-migration
\* when the target is not ready, migrating when both hold, post-migration
\* when only the target is ready; whatever the namespace, the resource
\* counts, the other checks and the result of the call before.
C11_PhaseFromTwoFacts ==
  validation # NoValidation =>
    validation.Phase = PhaseTable(LegacyReported(validation), TargetReported(validation))

\* A parallel migration reported while other checks fail.
C11_Witness ==
  /\ validation # NoValidation
  /\ LegacyReported(validation) /\ TargetReported(validation)
  /\ validation.Phase = "migrating"
  /\ validation.Overall = "fail"

\* The value of a decimal digit, -1 for any other character.
DigitOf(ch) ==
  IF \E d \in 0..9 : ToString(d) = ch THEN CHOOSE d \in 0..9 : ToString(d) = ch ELSE -1

\* The two-digit ordinal a path begins with ("NN-"), -1 without one. Two
\* paths with different ordinals sort lexically as their ordinals do.
OrdinalOf(path) ==
  IF Len(path) >= 3 /\ DigitOf(SubSeq(path, 1, 1)) >= 0 /\ DigitOf(SubSeq(path, 2, 2)) >= 0
     /\ SubSeq(path, 3, 3) = "-"
  THEN 10 * DigitOf(SubSeq(path, 1, 1)) + DigitOf(SubSeq(path, 2, 2))
  ELSE -1

\* The place of a file in the apply order, by its category: install,
\* shared infrastructure, per-route objects with their auxiliary objects,
\* verification (and the DNS cut-over guide that follows it), cleanup.
StageOf(f) ==
  IF f.Category = "install" THEN 1
  ELSE IF f.Category = "gateway" THEN 2
  ELSE IF f.Category \in {"httproute", "policy", "middleware", "ingress"} THEN 3
  ELSE IF f.Category \in {"verify", "guide"} THEN 4
  ELSE 5

\* The lexical order of the paths is the apply order of their stages.
StagesInPathOrder ==
  \A i, j \in DOMAIN files : StageOf(files[i]) < StageOf(files[j]) =>
    OrdinalOf(files[i].RelPath) < OrdinalOf(files[j].RelPath)

\* C12 as stated: every RelPath begins with a two-digit ordinal directory,
\* and the paths sort in apply order.
C12_OrdinalDirectories ==
  /\ \A i \in DOMAIN files :
       OrdinalOf(files[i].RelPath) >= 0 /\ Contains(files[i].RelPath, "/")
  /\ StagesInPathOrder

\* C12: for either target and any fleet every RelPath begins with a
\* two-digit ordinal (on its directory, or on the file itself for the
\* verification script and the DNS guide, which lie in no directory), and
\* the paths sort lexically in apply order: install, shared
\* infrastructure, per-route and auxiliary objects, verification, cleanup.
C12_OrdinalPrefixes ==
  /\ \A i \in DOMAIN files : OrdinalOf(files[i].RelPath) >= 0
  /\ \A i \in DOMAIN files :
       ~Contains(files[i].RelPath, "/") => files[i].Category \in {"verify", "guide"}
  /\ StagesInPathOrder

\* A Gateway API run with files of every stage, a policy among them.
C12_Witness ==
  /\ target = "gateway-api"
  /\ \A c \in {"install", "gateway", "httproute", "policy", "verify", "cleanup"} :
       \E i \in DOMAIN files : files[i].Category = c

\* The Ingress without its nginx annotation k.
WithoutAnnotation(ing, k) ==
  [ing EXCEPT !.NginxAnnotations = [x \in DOMAIN ing.NginxAnnotations \ {k} |-> ing.NginxAnnotations[x]]]

\* The nginx annotations an Ingress's middlewares are generated from: those
\* without which other middlewares would be generated.
TranslatedKeys(ing) ==
  { k \in DOMAIN ing.NginxAnnotations :
      generateMiddlewares(WithoutAnnotation(ing, k)) # generateMiddlewares(ing) }

\* The updated Ingress manifests among the files.
IngressDocs ==
  { files[i].Content : i \in { x \in DOMAIN files : files[x].Category = "ingress" } }

DocsOf(ing) == { d \in IngressDocs : d.namespace = ing.Namespace /\ d.name = ing.Name }

AnnotationsOfDoc(d) == { d.annotations[i] : i \in DOMAIN d.annotations }

\* C13: in the updated Ingress of every route the nginx annotations from
\* which a Middleware was generated are absent, and every other nginx
\* annotation is there with its value.
C13_TranslatedStripped ==
  TraefikFiles =>
    \A i \in DOMAIN scan : \A d \in DocsOf(scan[i]) : \A k \in DOMAIN scan[i].NginxAnnotations :
      LET full == nginxAnnotationPrefix \o k
      IN  IF k \in TranslatedKeys(scan[i])
          THEN ~\E a \in AnnotationsOfDoc(d) : a.key = full
          ELSE [key |-> full, value |-> scan[i].Annotations[full]] \in AnnotationsOfDoc(d)

\* The Middleware objects among the files, each with the file that holds it
\* and its place there.
EmittedMiddlewares ==
  UNION { { [file |-> i, at |-> j, namespace |-> files[i].Content[j].namespace,
             name |-> files[i].Content[j].name] : j \in DOMAIN files[i].Content } :
          i \in { x \in DOMAIN files : files[x].Category = "middleware" } }

\* The name by which an Ingress annotation refers to a Middleware.
QualifiedName(namespace, name) == namespace \o "-" \o name \o "@kubernetescrd"

\* The values of the router.middlewares annotation of an updated Ingress.
ReferencesOf(d) == { a.value : a \in { x \in AnnotationsOfDoc(d) : x.key = routerMiddlewares } }

\* C14: the updated Ingress of a route carries the middleware reference
\* exactly when middlewares were generated for the route; the reference
\* lists the qualified names of that route's middlewares in the order of
\* generation and nothing else, and each of these names belongs to exactly
\* one Middleware among the files.
C14_AggregateReference ==
  TraefikFiles =>
    \A i \in DOMAIN scan : \A d \in DocsOf(scan[i]) :
      LET mws == generateMiddlewares(scan[i])
          names == [j \in DOMAIN mws |-> QualifiedName(mws[j].Namespace, mws[j].Name)]
      IN  /\ ReferencesOf(d) = IF Len(mws) > 0 THEN {Join(names, ",")} ELSE {}
          /\ \A j \in DOMAIN names :
               Cardinality({ m \in EmittedMiddlewares :
                               QualifiedName(m.namespace, m.name) = names[j] }) = 1

\* The rules of the HTTPRoute objects generated for the i-th Ingress that
\* route to a backend, in order.
BackendRulesOf(i) ==
  LET docs == RouteFiles[i].Content
  IN  docs[Len(docs)].rules

\* C15: a path with one of the characters ( ) | [ ] { } is emitted with
\* type RegularExpression whether or not the route has the use-regex
\* annotation; on a route without the annotation a path without these
\* characters is emitted as Exact when its path type is Exact and as
\* PathPrefix otherwise.
C15_RegexDetection ==
  GatewayFiles =>
    \A i \in DOMAIN scan : \A r \in DOMAIN BackendRulesOf(i) :
      LET p == scan[i].Paths[r]
          emitted == BackendRulesOf(i)[r].matches[1].path
          regexChars == \E ch \in {"(", ")", "|", "[", "]", "{", "}"} :
                          \E k \in 1..Len(p.Path) : SubSeq(p.Path, k, k) = ch
      IN  /\ emitted.value = p.Path
          /\ regexChars => emitted.type = "RegularExpression"
          /\ (~regexChars /\ "use-regex" \notin DOMAIN scan[i].NginxAnnotations) =>
               emitted.type = IF p.PathType = "Exact" THEN "Exact" ELSE "PathPrefix"

\* A fleet with regex paths on a route without the use-regex annotation and
\* plain paths on another, migrated.
C15_Witness ==
  /\ GatewayFiles
  /\ \E i, j \in DOMAIN scan :
       /\ "use-regex" \notin DOMAIN scan[i].NginxAnnotations
       /\ "use-regex" \notin DOMAIN scan[j].NginxAnnotations
       /\ \E r \in DOMAIN BackendRulesOf(i) :
            /\ scan[i].Paths[r].PathType = "Exact"
            /\ BackendRulesOf(i)[r].matches[1].path.type = "RegularExpression"
       /\ \E r \in DOMAIN BackendRulesOf(j) : BackendRulesOf(j)[r].matches[1].path.type = "Exact"

TimeoutFields(rule) == { rule.timeouts[k].field : k \in DOMAIN rule.timeouts }

\* C16: whatever proxy-read-timeout and proxy-connect-timeout a route has,
\* no rule of its HTTPRoute sets the timeout field "request" or carries the
\* connect-timeout value; with a proxy-read-timeout every backend rule has
\* the one field backendRequest with that value in seconds, and without one
\* no rule has a timeouts block.
C16_BackendRequestOnly ==
  GatewayFiles =>
    \A i \in DOMAIN scan : \A d \in DOMAIN RouteFiles[i].Content : \A r \in DOMAIN RouteFiles[i].Content[d].rules :
      LET rule == RouteFiles[i].Content[d].rules[r]
          ann == scan[i].NginxAnnotations
      IN  /\ TimeoutFields(rule) \subseteq {"backendRequest"}
          /\ IF "proxy-read-timeout" \in DOMAIN ann /\ rule.backendRefs # <<>>
             THEN rule.timeouts = <<[field |-> "backendRequest", value |-> ann["proxy-read-timeout"] \o "s"]>>
             ELSE rule.timeouts = <<>>

\* A route with both timeouts whose rules carry the read timeout.
C16_Witness ==
  /\ GatewayFiles
  /\ \E i \in DOMAIN scan :
       /\ {"proxy-read-timeout", "proxy-connect-timeout"} \subseteq DOMAIN scan[i].NginxAnnotations
       /\ \A r \in DOMAIN BackendRulesOf(i) : Len(BackendRulesOf(i)[r].timeouts) = 1

\* The route is a canary with a stated weight.
WeightedCanary(ing) ==
  Get(ing.NginxAnnotations, "canary") = "true" /\ Get(ing.NginxAnnotations, "canary-weight") # ""

\* C17: every backend rule of a route has one active backendRef, to the
\* service of its own path. On a canary route with a stated weight the ref
\* carries that weight, and the stable backend is there only as a commented
\* entry, with a placeholder name and the weight to fill in noted as 100
\* minus the stated weight; on any other route the ref carries no weight
\* and nothing is commented.
C17_CanaryWeights ==
  GatewayFiles =>
    \A i \in DOMAIN scan : \A r \in DOMAIN BackendRulesOf(i) :
      LET rule == BackendRulesOf(i)[r]
          stated == Get(scan[i].NginxAnnotations, "canary-weight")
      IN  /\ Len(rule.backendRefs) = 1
          /\ rule.backendRefs[1].name = scan[i].Paths[r].ServiceName
          /\ IF WeightedCanary(scan[i])
             THEN /\ rule.backendRefs[1].weight = stated
                  /\ Len(rule.commented) = 1
                  /\ ContainsStr(rule.commented[1].note, "weight = (100 - " \o stated \o ")")
                  /\ rule.commented[1].name \notin { scan[i].Paths[k].ServiceName : k \in DOMAIN scan[i].Paths }
             ELSE /\ rule.backendRefs[1].weight = ""
                  /\ rule.commented = <<>>

\* A weighted canary next to a route with canary-weight alone, migrated.
C17_Witness ==
  /\ GatewayFiles
  /\ \E i, j \in DOMAIN scan :
       /\ WeightedCanary(scan[i])
       /\ BackendRulesOf(i)[1].backendRefs[1].weight = "20"
       /\ ~WeightedCanary(scan[j])
       /\ BackendRulesOf(j)[1].backendRefs[1].weight = ""

\* The listeners of the Gateway with the given name.
ListenersNamed(name) ==
  { l \in DOMAIN GatewayDoc.listeners : GatewayDoc.listeners[l].name = name }

\* The number of TLS secrets of the Ingresses before the i-th.
RECURSIVE SecretsBefore(_)
SecretsBefore(i) ==
  IF i <= 1 THEN 0
  ELSE SecretsBefore(i - 1)
         + (IF scan[i - 1].TLSEnabled THEN Len(scan[i - 1].TLSSecrets) ELSE 0)

\* C18: the table of buildHostnameToSection and the Gateway agree: the
\* sections are https-0, https-1, ... counted over the TLS secrets in fleet
\* order, and when the table maps the primary hostname of a route with TLS
\* secrets to https-N the Gateway has exactly one listener https-N, with
\* that hostname and with one of that route's TLS secrets as its
\* certificate.
C18_TableMatchesGateway ==
  GatewayFiles =>
    LET m == buildHostnameToSection(scan)
    IN  /\ \A h \in DOMAIN m :
             \E i \in DOMAIN scan : \E j \in DOMAIN scan[i].TLSSecrets :
               /\ scan[i].Hosts # <<>> /\ scan[i].Hosts[1] = h
               /\ m[h] = "https-" \o ToString(SecretsBefore(i) + j - 1)
        /\ \A i \in DOMAIN scan :
             (scan[i].TLSEnabled /\ scan[i].TLSSecrets # <<>>
                /\ scan[i].Hosts # <<>> /\ scan[i].Hosts[1] \in DOMAIN m) =>
               /\ Cardinality(ListenersNamed(m[scan[i].Hosts[1]])) = 1
               /\ \A l \in ListenersNamed(m[scan[i].Hosts[1]]) :
                    /\ GatewayDoc.listeners[l].hostname = scan[i].Hosts[1]
                    /\ Len(GatewayDoc.listeners[l].certificateRefs) = 1
                    /\ GatewayDoc.listeners[l].certificateRefs[1] \in
                         { [name |-> scan[i].TLSSecrets[j], namespace |-> scan[i].Namespace] :
                             j \in DOMAIN scan[i].TLSSecrets }

\* The policy files, in the order Migrate returns them.
PolicyFiles == SelectSeq(files, LAMBDA f : f.Category = "policy")

\* The HTTPRoute objects among the files.
EmittedRoutes ==
  UNION { { files[i].Content[d] : d \in DOMAIN files[i].Content } :
          i \in { x \in DOMAIN files : files[x].Category = "httproute" } }

\* C19: every policy is a file of its own whose targetRef names an
\* HTTPRoute that the same run emitted, in the policy's namespace, for the
\* route the policy is derived from; and no two policies of a run have the
\* same kind, namespace and name.
C19_PoliciesAttachToRoutes ==
  GatewayFiles =>
    /\ \A p \in DOMAIN PolicyFiles :
         LET pol == PolicyFiles[p].Content
         IN  /\ pol.targetRef.kind = "HTTPRoute"
             /\ \E r \in EmittedRoutes : r.name = pol.targetRef.name /\ r.namespace = pol.namespace
             /\ \E i \in DOMAIN scan :
                  /\ scan[i].Name = pol.targetRef.name /\ scan[i].Namespace = pol.namespace
                  /\ \E k \in DOMAIN policiesOf(scan[i]) : policiesOf(scan[i])[k].yaml = pol
    /\ \A p, q \in DOMAIN PolicyFiles :
         p # q => <<PolicyFiles[p].Content.kind, PolicyFiles[p].Content.namespace, PolicyFiles[p].Content.name>>
                    # <<PolicyFiles[q].Content.kind, PolicyFiles[q].Content.namespace, PolicyFiles[q].Content.name>>

\* The string is a decimal number.
IsNumber(str) == Len(str) > 0 /\ \A k \in 1..Len(str) : DigitOf(SubSeq(str, k, k)) >= 0

\* The value a numeric field gets from an annotation value: the value when
\* it is a number, the default when it is not.
ParsedOr(value, default) == IF IsNumber(value) THEN value ELSE default

\* C20: a value that is not a number never reaches a numeric field: the
\* requests of a rate-limit policy and the average of a rateLimit
\* middleware are limit-rps or, when that does not parse, the default 100;
\* the backendRequest timeout is a number of seconds; the weight of a
\* backendRef is a number or absent.
C20_UnparseableFallsBack ==
  /\ GatewayFiles =>
       /\ \A p \in DOMAIN PolicyFiles :
            PolicyFiles[p].Content.kind = "BackendTrafficPolicy" =>
              \E i \in DOMAIN scan :
                /\ scan[i].Name = PolicyFiles[p].Content.targetRef.name
                /\ PolicyFiles[p].Content.spec.requests
                     = ParsedOr(Get(scan[i].NginxAnnotations, "limit-rps"), "100")
       /\ \A i \in DOMAIN scan : \A r \in DOMAIN BackendRulesOf(i) :
            LET rule == BackendRulesOf(i)[r]
            IN  /\ \A t \in DOMAIN rule.timeouts :
                     /\ Len(rule.timeouts[t].value) >= 2
                     /\ IsNumber(SubSeq(rule.timeouts[t].value, 1, Len(rule.timeouts[t].value) - 1))
                /\ \A b \in DOMAIN rule.backendRefs :
                     rule.backendRefs[b].weight = "" \/ IsNumber(rule.backendRefs[b].weight)
  /\ TraefikFiles =>
       \A i \in DOMAIN scan : \A m \in DOMAIN generateMiddlewares(scan[i]) :
         "rateLimit" \in DOMAIN generateMiddlewares(scan[i])[m].YAML.spec =>
           \E f \in DOMAIN files :
             /\ files[f].Category = "middleware"
             /\ \E k \in DOMAIN files[f].Content :
                  /\ files[f].Content[k].name = generateMiddlewares(scan[i])[m].Name
                  /\ files[f].Content[k].namespace = scan[i].Namespace
                  /\ files[f].Content[k].spec.rateLimit.average
                       = ParsedOr(Get(scan[i].NginxAnnotations, "limit-rps"), "100")

\* ------------------------------------------------ properties of a whole run

\* The category and the description of the file a migrator writes for every
\* Ingress of the scan.
PrimaryCategory == IF target = "gateway-api" THEN "httproute" ELSE "ingress"

PrimaryFiles == SelectSeq(files, LAMBDA f : f.Category = PrimaryCategory)

PrimaryDescription(ing) ==
  IF target = "gateway-api"
  THEN "HTTPRoute for " \o ing.Namespace \o "/" \o ing.Name
  ELSE "Updated Ingress manifest for " \o ing.Namespace \o "/" \o ing.Name
         \o " with Traefik annotations"

\* The files a migrator writes whatever the scan holds: installation, the
\* shared Gateway objects, verification, and cleanup.
FixedPaths ==
  IF target = "gateway-api"
  THEN {"01-install-gateway-api-crds/install.sh", "02-install-envoy-gateway/helm-install.sh",
        "02-install-envoy-gateway/values.yaml", "03-gateway/gatewayclass.yaml",
        "03-gateway/gateway.yaml", "06-verify.sh", "07-cleanup/remove-nginx.sh"}
  ELSE {"01-install-traefik/helm-install.sh", "01-install-traefik/values.yaml",
        "04-verify.sh", "05-dns-migration.md", "06-cleanup/01-preserve-ingressclass.yaml",
        "06-cleanup/02-remove-nginx.sh"}

WithoutSnippets(ings) == [i \in DOMAIN ings |-> WithoutAnnotation(ings[i], "configuration-snippet")]

\* The files that hold the objects generated from annotations: Middlewares
\* (traefik), HTTPRoutes with their filters and extension policies
\* (gateway-api).
GeneratedObjects(fs) == SelectSeq(fs, LAMBDA f : f.Category \in {"middleware", "httproute", "policy"})

\* C22: for either target, an Ingress with a configuration-snippet gets an
\* unsupported mapping for it and the overall status "breaking", and the
\* migration generates from it what it generates from the same fleet without
\* the snippets: the same Middleware files and the same references to them
\* (traefik), the same HTTPRoute and policy files (gateway-api).
C22_SnippetNeverImplemented ==
  (response = "files" /\ target \in KnownTargets) =>
    /\ \A i \in DOMAIN scan :
         Has(scan[i].NginxAnnotations, "configuration-snippet") =>
           /\ report.IngressReports[i].OverallStatus = "breaking"
           /\ \E m \in DOMAIN report.IngressReports[i].Mappings :
                /\ report.IngressReports[i].Mappings[m].OriginalKey = "configuration-snippet"
                /\ report.IngressReports[i].Mappings[m].Status = StatusUnsupported
           /\ generateMiddlewares(scan[i])
                = generateMiddlewares(WithoutAnnotation(scan[i], "configuration-snippet"))
    /\ IF target = "gateway-api"
       THEN \E hostOrds \in HostOrders(scan) :
              GeneratedObjects(files) = GeneratedObjects(GatewayMigrateFiles(WithoutSnippets(scan), hostOrds))
       ELSE \E annOrds \in AnnotationOrders(WithoutSnippets(scan)), hostOrds \in HostOrders(scan) :
              LET plain == TraefikMigrateFiles(WithoutSnippets(scan), annOrds, hostOrds)
              IN  /\ GeneratedObjects(files) = GeneratedObjects(plain)
                  /\ Len(files) = Len(plain)
                  /\ \A f \in DOMAIN files :
                       files[f].Category = "ingress" =>
                         ReferencesOf(files[f].Content) = ReferencesOf(plain[f].Content)

\* A run for gateway-api over an Ingress with a snippet and a rate limit: the
\* report says breaking, and the one policy is the rate limit's.
C22_Witness ==
  /\ GatewayFiles
  /\ \E i \in DOMAIN scan :
       /\ Has(scan[i].NginxAnnotations, "configuration-snippet")
       /\ Has(scan[i].NginxAnnotations, "limit-rps")
       /\ report.IngressReports[i].OverallStatus = "breaking"
  /\ Len(PolicyFiles) = 1

\* ---------------------------------------------- properties of the registry

\* The status the table of a target gives a key, "" when it has none.
StatusIn(tgt, key) ==
  LET mappings == IF tgt = "traefik" THEN traefikMappings ELSE gatewayAPIMappings
  IN  IF key \in DOMAIN mappings THEN mappings[key].Status ELSE ""

\* C23: for either target, a key the registry has a guide for is partial or
\* unsupported in the target's table; no supported key has a guide.
C23_GuidesForGapsOnly ==
  (guide.target \in KnownTargets /\ guide.guide # ZeroGuide) =>
    StatusIn(guide.target, guide.key) \in {StatusPartial, StatusUnsupported}

\* ------------------------------------------- properties of the Migrate page

\* Every step before step i of the checklist is marked completed.
EarlierCompleted(i) == \A j \in 0..(i - 1) : j \in page.completedSteps

\* C27: whatever was generated, run, toggled or switched before, a dry-run
\* or an apply of step i starts only when every earlier step of the current
\* target's checklist is marked completed.
C27_StepsLocked ==
  [][\A stepIdx \in StepIndices, dryRun \in BOOLEAN :
       handleApply(stepIdx, dryRun) => EarlierCompleted(stepIdx)]_vars

\* ------------------------------------- properties of the scanner's tiers

\* C25: for target traefik, the scanner's tier of an Ingress is
\* "unsupported" exactly when the analyzer's overall status of it is
\* "breaking".
C25_TierAgreesWithStatus ==
  (Reported /\ target = "traefik") =>
    \A i \in DOMAIN scan :
      scan[i].Complexity = "unsupported" <=> report.IngressReports[i].OverallStatus = "breaking"

\* ------------------------------------------- properties of the middlewares

\* The Middleware objects in the files of a Traefik run that belong to
\* Ingress ing and whose name ends in suffix.
MiddlewaresNamed(ing, suffix) ==
  { m \in UNION { { files[f].Content[k] : k \in DOMAIN files[f].Content } :
                  f \in { x \in DOMAIN files : files[x].Category = "middleware" } } :
      m.namespace = ing.Namespace /\ m.name = ing.Name \o suffix }

\* C24: for an Ingress with a rewrite target, the Traefik run emits one
\* rewrite Middleware: a replacePathRegex whose replacement is the target
\* when the use-regex annotation is present (whatever its value), a
\* replacePath whose path is the target when it is absent, whatever
\* characters the Ingress's paths or the target have.
C24_RegexShapeByFlag ==
  TraefikFiles =>
    \A i \in DOMAIN scan :
      Get(scan[i].NginxAnnotations, "rewrite-target") # "" =>
        LET rewriteTarget == scan[i].NginxAnnotations["rewrite-target"]
            emitted == MiddlewaresNamed(scan[i], "-rewrite")
        IN  /\ Cardinality(emitted) = 1
            /\ \A m \in emitted :
                 IF Has(scan[i].NginxAnnotations, "use-regex")
                 THEN /\ DOMAIN m.spec = {"replacePathRegex"}
                      /\ m.spec.replacePathRegex.replacement = rewriteTarget
                 ELSE /\ DOMAIN m.spec = {"replacePath"}
                      /\ m.spec.replacePath.path = rewriteTarget

\* A Traefik run over an Ingress with plain paths, the rewrite target "/new"
\* and use-regex "false": the flag is present, the Middleware has the regex
\* shape.
C24_Witness ==
  /\ TraefikFiles
  /\ \E i \in DOMAIN scan :
       /\ scan[i].NginxAnnotations = ("rewrite-target" :> "/new" @@ "use-regex" :> "false")
       /\ \A p \in DOMAIN scan[i].Paths : ~pathHasRegexChars(scan[i].Paths[p].Path)
       /\ \E m \in MiddlewaresNamed(scan[i], "-rewrite") : "replacePathRegex" \in DOMAIN m.spec

\* The number a decimal string writes.
RECURSIVE NumberOf(_)
NumberOf(str) ==
  IF str = "" THEN 0
  ELSE NumberOf(SubSeq(str, 1, Len(str) - 1)) * 10 + DigitOf(SubSeq(str, Len(str), Len(str)))

\* The scalar a YAML value text denotes: the text before a trailing comment.
ScalarOf(text) ==
  LET starts == { i \in 1..(Len(text) - 1) : SubSeq(text, i, i + 1) = " #" }
  IN  IF starts = {} THEN text
      ELSE SubSeq(text, 1, (CHOOSE i \in starts : \A j \in starts : i <= j) - 1)

\* The seconds of a period written as a number of seconds, as "1s".
SecondsOf(period) == NumberOf(SubSeq(period, 1, Len(period) - 1))

\* C30: for an Ingress with limit-rpm N and no limit-rps, the rateLimit
\* Middleware of the Traefik run allows N requests per minute: its average
\* per its period is N per 60 seconds.
C30_PerMinuteRateKept ==
  TraefikFiles =>
    \A i \in DOMAIN scan :
      (IsNumber(Get(scan[i].NginxAnnotations, "limit-rpm")) /\ ~Has(scan[i].NginxAnnotations, "limit-rps")) =>
        /\ Cardinality(MiddlewaresNamed(scan[i], "-ratelimit")) = 1
        /\ \A m \in MiddlewaresNamed(scan[i], "-ratelimit") :
             NumberOf(ScalarOf(m.spec.rateLimit.average)) * 60
               = NumberOf(scan[i].NginxAnnotations["limit-rpm"]) * SecondsOf(m.spec.rateLimit.period)

\* ----------------------------------------- properties of the redirect route

\* The RequestRedirect filters of an HTTPRoute object.
RedirectFilters(doc) ==
  UNION { { doc.rules[r].filters[f] : f \in DOMAIN doc.rules[r].filters } : r \in DOMAIN doc.rules }

\* C29: in the redirect HTTPRoute of an Ingress with redirect enabled, every
\* rule redirects to scheme https with the same status code: 301 when
\* force-ssl-redirect is "true" (also when ssl-redirect is "true" as well),
\* 302 when ssl-redirect is "true" and force-ssl-redirect is not.
C29_RedirectStatusCode ==
  GatewayFiles =>
    \A i \in DOMAIN scan :
      RedirectEnabled(scan[i]) =>
        LET redirect == RouteFiles[i].Content[1]
            code == IF Get(scan[i].NginxAnnotations, "force-ssl-redirect") = "true" THEN 301 ELSE 302
        IN  /\ redirect.name = scan[i].Name \o "-redirect"
            /\ Len(redirect.rules) = Len(scan[i].Paths)
            /\ \A r \in DOMAIN redirect.rules :
                 redirect.rules[r].filters
                   = <<[type |-> "RequestRedirect", scheme |-> "https", statusCode |-> code]>>

\* A gateway-api run over an Ingress with both annotations "true" and two
\* paths: both rules of its redirect route answer 301.
C29_Witness ==
  /\ GatewayFiles
  /\ \E i \in DOMAIN scan :
       /\ Get(scan[i].NginxAnnotations, "ssl-redirect") = "true"
       /\ Get(scan[i].NginxAnnotations, "force-ssl-redirect") = "true"
       /\ Len(RouteFiles[i].Content[1].rules) = 2
       /\ \A f \in RedirectFilters(RouteFiles[i].Content[1]) : f.statusCode = 301

\* ---------------------------------------------- properties of the coverage

\* The Gateway API table reports the key supported or partial and names a
\* target construct for it other than native behaviour.
NamesConstruct(key) ==
  /\ key \in DOMAIN gatewayAPIMappings
  /\ gatewayAPIMappings[key].Status \in {StatusSupported, StatusPartial}
  /\ gatewayAPIMappings[key].TargetResource \notin {"", "Native"}

\* The scan with annotation key taken off Ingress i.
ScanWithout(i, key) == [scan EXCEPT ![i] = WithoutAnnotation(scan[i], key)]

\* C26: every annotation of an Ingress that the Gateway API table reports
\* supported or partial with a target construct of its own shows in the
\* generated files: the run's files are not those of the same scan with the
\* annotation taken off the Ingress.
C26_ReportedMeansGenerated ==
  GatewayFiles =>
    \A i \in DOMAIN scan : \A key \in DOMAIN scan[i].NginxAnnotations :
      NamesConstruct(key) =>
        \A hostOrds \in HostOrders(scan) : files # GatewayMigrateFiles(ScanWithout(i, key), hostOrds)

\* ------------------------------------------------- properties of the frame

\* C28: no classification and no migration, for either target and in any
\* sequence, changes the Ingresses it is given (their annotations, hosts,
\* paths and TLS secrets) or the cluster facts.
C28_InputsUnchanged == [][scan' = scan /\ cluster' = cluster]_vars

\* A Traefik migration after a classification: the updated Ingress of the
\* files has lost the nginx annotations of toRemove and gained the
\* middleware annotation, while the scanned Ingress still has the
\* annotations it came with.
C28_Witness ==
  /\ TraefikFiles
  /\ report # NoReport
  /\ \E i \in DOMAIN scan : \E d \in DocsOf(scan[i]) :
       /\ nginxAnnotationPrefix \o "limit-rps" \in DOMAIN scan[i].Annotations
       /\ \A a \in AnnotationsOfDoc(d) : a.key # nginxAnnotationPrefix \o "limit-rps"
       /\ \E a \in AnnotationsOfDoc(d) : a.key = routerMiddlewares
       /\ routerMiddlewares \notin DOMAIN scan[i].Annotations
       /\ scan[i].NginxAnnotations = NginxOf(scan[i].Annotations)

====
